---- MODULE Spec2Model ----
(***************************************************************************)
(* Kinetic Monte Carlo core of RNMC: the reaction-network engine          *)
(* (GMC/reaction_network.h), the simulation driver (core/simulation.h)    *)
(* and the nanoparticle engine (NPMC/nano_particle.h).                    *)
(*                                                                         *)
(* Three specifications share the variables:                              *)
(*   Spec    a Simulation over a ReactionNetwork, driven by execute_steps *)
(*   SpecFn  compute_propensity and update_state applied to inputs drawn  *)
(*           from bounded sets                                            *)
(*   SpecNP  the nanoparticle engine: load, then firings                  *)
(*           (update_state followed by update_reactions)                  *)
(*                                                                         *)
(* Reals (rates, factors, times, propensities) are modelled by integers;  *)
(* vectors indexed from 0 in the source are functions on 0..n-1.          *)
(***************************************************************************)
EXTENDS Integers, Sequences, FiniteSets, TLC

VARIABLES
    \* ReactionNetwork (GMC/reaction_network.h:43-55)
    reactions,            \* std::vector<Reaction>
    initial_state,        \* std::vector<int>
    initial_propensities, \* std::vector<double>
    factor_zero,
    factor_two,
    factor_duplicate,
    dependency_threshold,
    dependency_graph,     \* std::vector<DependentsNode>
    \* Simulation (core/simulation.h:12-21)
    state,                \* std::vector<int>
    time,
    time_cutoff,
    step,
    history,              \* std::vector<HistoryElement>, step_cutoff + 1 slots
    propensities,         \* the solver's propensity of every reaction
    \* the caller of the driver and what the last execute_step did
    step_cutoff,          \* constructor argument, passed again to execute_steps
    pc,                   \* position of the caller
    ret,                  \* value returned by the last execute_step
    last_event,           \* std::optional<Event> of the last execute_step
    last_updates,         \* Updates delivered by the last update_propensities
    last_dependents,      \* what get_dependency_node returned to it
    history_write,        \* the indices history[step] = ... wrote at in it
    gdn_calls,            \* number of get_dependency_node(j) calls, per j
    \* inputs and outputs of the functions applied in SpecFn
    fn_state,             \* the state a function was applied to
    fn_out,               \* the propensity it returned
    \* NanoParticle (NPMC/nano_particle.h:30-75)
    sites,                      \* std::vector<Site>
    distance_matrix,            \* std::vector<std::vector<double>>
    one_site_interactions,      \* std::vector<Interaction>
    two_site_interactions,      \* std::vector<Interaction>
    num_states,                 \* extent of the state axes of the two maps
    one_site_interactions_map,  \* [species][state] -> interactions
    two_site_interactions_map,  \* [species][species][state][state] -> interactions
    np_initial_state,           \* NanoParticle::initial_state
    initial_reactions,          \* std::vector<Reaction>
    site_reaction_dependency,   \* std::vector<std::set<int>>
    one_site_interaction_factor,
    two_site_interaction_factor,
    interaction_radius_bound,
    \* one trajectory over the NanoParticle
    np_state,                          \* std::vector<int> &state
    current_reactions,                 \* std::vector<Reaction>
    current_site_reaction_dependency,  \* std::vector<std::set<int>>
    np_propensities,                   \* the solver's propensity of every slot
    np_last,                           \* what the last firing did
    move_loop,                         \* the locals of the compaction loop
    \* two runs with one seed (SpecRuns)
    solver_draws,         \* what the solver's generator yields for the seed
    run,                  \* the number of the run
    first_run,            \* what the first run ended with
    \* trajectories that share one ReactionNetwork (SpecShared)
    mutex,                \* DependentsNode::mutex of every node: its holder, or 0
    trajectory,           \* every trajectory's Simulation and its position
    \* the rows the ReactionNetwork constructor reads (SpecLoad)
    maybe_metadata_row,   \* metadata_reader.next()
    reaction_rows         \* what reaction_reader.next() yields, in order

modelVars  == <<reactions, initial_state, initial_propensities, factor_zero,
                factor_two, factor_duplicate, dependency_threshold>>
simVars    == <<state, time, time_cutoff, step, history, propensities,
                step_cutoff, ret, last_event, last_updates, last_dependents,
                history_write>>
graphVars  == <<dependency_graph, gdn_calls>>
fnVars     == <<fn_state, fn_out>>
npModelVars == <<sites, distance_matrix, one_site_interactions,
                 two_site_interactions, num_states, one_site_interactions_map,
                 two_site_interactions_map, np_initial_state,
                 one_site_interaction_factor, two_site_interaction_factor,
                 interaction_radius_bound>>
npLoadVars == <<initial_reactions, site_reaction_dependency>>
npRunVars  == <<np_state, current_reactions, current_site_reaction_dependency,
                np_propensities, np_last, move_loop>>
npVars     == <<npModelVars, npLoadVars, npRunVars>>
runVars    == <<solver_draws, run, first_run>>
sharedVars == <<mutex, trajectory>>
loadVars   == <<maybe_metadata_row, reaction_rows>>
vars       == <<modelVars, simVars, graphVars, fnVars, npVars, runVars,
                sharedVars, loadVars, pc>>

-----------------------------------------------------------------------------
(* Bounds of the model *)

NumSpecies      == 2   \* species are 0..NumSpecies-1
NumReactions    == 2   \* reactions of a network are 0..NumReactions-1
MaxFnCount      == 4   \* counts of the states SpecFn applies functions to
MaxThreshold    == 1   \* dependency_threshold is 0..MaxThreshold
MaxStepCutoff   == 2   \* step_cutoff is MaxStepCutoff
MaxTimeCutoff   == 4   \* time_cutoff is -1, 0 or MaxTimeCutoff

\* the initial count of a species in Spec, and the solver's dt
InitialCounts == {0, 2}
DtChoices     == {1, 2}

Species == 0 .. NumSpecies - 1

-----------------------------------------------------------------------------
(* struct Reaction: reactants[m] of the source is reactants[m+1] here *)

Reaction(nr, np, rs, ps, k) ==
    [number_of_reactants |-> nr, number_of_products |-> np,
     reactants |-> rs, products |-> ps, rate |-> k]

\* Every Reaction over Species with 0, 1 or 2 reactants and products; the
\* unused slots carry every value a row can hold.
AllReactions ==
    { Reaction(nr, np, <<r1, r2>>, <<p1, p2>>, k) :
        nr \in 0..2, np \in 0..2, r1 \in Species, r2 \in Species,
        p1 \in Species, p2 \in Species, k \in {2} }

\* The reaction shapes the driver is run on (species 0 is A, 1 is B).
\* Unused slots hold species that are used elsewhere in the network.
ReactionPool ==
    << Reaction(1, 0, <<0, 1>>, <<1, 0>>, 1),     \* A -> 0
       Reaction(2, 1, <<0, 0>>, <<1, 0>>, 1),     \* A + A -> B
       Reaction(1, 2, <<1, 0>>, <<0, 0>>, 2),     \* B -> A + A
       Reaction(0, 1, <<1, 0>>, <<1, 0>>, 1),     \* 0 -> B
       Reaction(2, 2, <<0, 1>>, <<1, 1>>, 1) >>   \* A + B -> B + B

\* the networks the driver is run on: NumReactions reactions of the pool, in
\* the order of the pool, a reaction possibly more than once
ReactionNetworks ==
    { [i \in 0 .. NumReactions - 1 |-> ReactionPool[f[i]]] :
        f \in { g \in [0 .. NumReactions - 1 -> DOMAIN ReactionPool] :
                  \A a, b \in 0 .. NumReactions - 1 : a < b => g[a] <= g[b] } }

\* factor_zero, factor_two, factor_duplicate of the factors row
FactorChoices == { <<1, 1, 1>>, <<2, 3, 5>> }

\* the factors row of the networks Spec simulates
SimulationFactors == { <<2, 3, 5>> }

ReactionIds == DOMAIN reactions

-----------------------------------------------------------------------------
(* ReactionNetwork::compute_propensity *)

\* compute_propensity with x * x for two equal reactants
compute_propensity_square(st, reaction_index) ==
    LET reaction == reactions[reaction_index] IN
    IF reaction.number_of_reactants = 0
      THEN factor_zero * reaction.rate
    ELSE IF reaction.number_of_reactants = 1
      THEN st[reaction.reactants[1]] * reaction.rate
    ELSE IF reaction.reactants[1] = reaction.reactants[2]
      THEN factor_duplicate * factor_two
             * st[reaction.reactants[1]] * st[reaction.reactants[1]]
             * reaction.rate
      ELSE factor_two
             * st[reaction.reactants[1]] * st[reaction.reactants[2]]
             * reaction.rate

\* compute_propensity reading the second reactant slot of a one-reactant reaction
compute_propensity_slot(st, reaction_index) ==
    LET reaction == reactions[reaction_index] IN
    IF reaction.number_of_reactants = 0
      THEN factor_zero * reaction.rate
    ELSE IF reaction.number_of_reactants = 1
      THEN st[reaction.reactants[2]] * reaction.rate
    ELSE IF reaction.reactants[1] = reaction.reactants[2]
      THEN factor_duplicate * factor_two
             * st[reaction.reactants[1]] * (st[reaction.reactants[1]] - 1)
             * reaction.rate
      ELSE factor_two
             * st[reaction.reactants[1]] * st[reaction.reactants[2]]
             * reaction.rate

\* compute_propensity counting one reactant molecule less
compute_propensity_less(st, reaction_index) ==
    LET reaction == reactions[reaction_index] IN
    IF reaction.number_of_reactants = 0
      THEN factor_zero * reaction.rate
    ELSE IF reaction.number_of_reactants = 1
      THEN (st[reaction.reactants[1]] - 1) * reaction.rate
    ELSE IF reaction.reactants[1] = reaction.reactants[2]
      THEN factor_duplicate * factor_two
             * st[reaction.reactants[1]] * (st[reaction.reactants[1]] - 1)
             * reaction.rate
      ELSE factor_two
             * st[reaction.reactants[1]] * st[reaction.reactants[2]]
             * reaction.rate

compute_propensity(st, reaction_index) ==
    LET reaction == reactions[reaction_index] IN
    IF reaction.number_of_reactants = 0
      THEN factor_zero * reaction.rate
    ELSE IF reaction.number_of_reactants = 1
      THEN st[reaction.reactants[1]] * reaction.rate
    ELSE IF reaction.reactants[1] = reaction.reactants[2]
      THEN factor_duplicate * factor_two
             * st[reaction.reactants[1]]
             * (st[reaction.reactants[1]] - 1)
             * reaction.rate
      ELSE factor_two
             * st[reaction.reactants[1]]
             * st[reaction.reactants[2]]
             * reaction.rate

(* ReactionNetwork::update_state: the two loops, one slot at a time *)

RECURSIVE update_state_reactants(_, _, _)
update_state_reactants(st, reaction_index, m) ==
    IF m < reactions[reaction_index].number_of_reactants
      THEN update_state_reactants(
             [st EXCEPT ![reactions[reaction_index].reactants[m + 1]] = @ - 1],
             reaction_index, m + 1)
      ELSE st

RECURSIVE update_state_products(_, _, _)
update_state_products(st, reaction_index, m) ==
    IF m < reactions[reaction_index].number_of_products
      THEN update_state_products(
             [st EXCEPT ![reactions[reaction_index].products[m + 1]] = @ + 1],
             reaction_index, m + 1)
      ELSE st

\* update_state decrementing every reactant species once, whatever its multiplicity
update_state_once(st, reaction_index) ==
    update_state_products(
        [s \in DOMAIN st |->
            IF \E m \in 1 .. reactions[reaction_index].number_of_reactants :
                 reactions[reaction_index].reactants[m] = s
              THEN st[s] - 1 ELSE st[s]],
        reaction_index, 0)

update_state(st, reaction_index) ==
    update_state_products(
        update_state_reactants(st, reaction_index, 0), reaction_index, 0)

-----------------------------------------------------------------------------
(* The lazy dependency graph *)

\* std::optional<std::vector<int>>
Nothing      == [has_value |-> FALSE, value |-> <<>>]
Optional(v)  == [has_value |-> TRUE, value |-> v]

\* DependentsNode::DependentsNode
DependentsNode == [dependents |-> Nothing, number_of_occurrences |-> 0]

\* a flag that reads both reactant slots of reaction j, used or not
dependency_flag_all_slots(j, reaction_index) ==
    \E l \in 0 .. 1 :
        \/ \E m \in 0 .. reactions[reaction_index].number_of_reactants - 1 :
               reactions[j].reactants[l + 1]
                 = reactions[reaction_index].reactants[m + 1]
        \/ \E n \in 0 .. reactions[reaction_index].number_of_products - 1 :
               reactions[j].reactants[l + 1]
                 = reactions[reaction_index].products[n + 1]

\* dependency_flag comparing with the fired reaction's reactants only
dependency_flag_reactants(j, reaction_index) ==
    \E l \in 0 .. reactions[j].number_of_reactants - 1 :
        \E m \in 0 .. reactions[reaction_index].number_of_reactants - 1 :
            reactions[j].reactants[l + 1]
              = reactions[reaction_index].reactants[m + 1]

\* the flag both loops of compute_dependency_node compute for reaction j
dependency_flag(j, reaction_index) ==
    \E l \in 0 .. reactions[j].number_of_reactants - 1 :
        \/ \E m \in 0 .. reactions[reaction_index].number_of_reactants - 1 :
               reactions[j].reactants[l + 1]
                 = reactions[reaction_index].reactants[m + 1]
        \/ \E n \in 0 .. reactions[reaction_index].number_of_products - 1 :
               reactions[j].reactants[l + 1]
                 = reactions[reaction_index].products[n + 1]

\* the first loop: number_of_dependents_count
number_of_dependents_count(reaction_index) ==
    Cardinality({ j \in ReactionIds : dependency_flag(j, reaction_index) })

\* the second loop: fills dependents[dependents_counter] walking
\* current_reaction upwards until dependents_counter reaches the count
RECURSIVE fill_dependents(_, _, _, _)
fill_dependents(dependents, dependents_counter, current_reaction, reaction_index) ==
    IF dependents_counter < number_of_dependents_count(reaction_index)
      THEN IF dependency_flag(current_reaction, reaction_index)
             THEN fill_dependents(Append(dependents, current_reaction),
                                  dependents_counter + 1,
                                  current_reaction + 1, reaction_index)
             ELSE fill_dependents(dependents, dependents_counter,
                                  current_reaction + 1, reaction_index)
      ELSE dependents

\* compute_dependency_node whose second loop stops one entry early: the last
\* slot of the zero-initialised vector keeps its 0
compute_dependency_node_short(reaction_index) ==
    LET full == fill_dependents(<<>>, 0, 0, reaction_index) IN
    [m \in 1 .. Len(full) |-> IF m = Len(full) THEN 0 ELSE full[m]]

\* ReactionNetwork::compute_dependency_node: the list it stores
compute_dependency_node(reaction_index) ==
    fill_dependents(<<>>, 0, 0, reaction_index)

\* a get_dependency_node that invalidates a list it finds present
get_dependency_node_forgetful(graph, reaction_index) ==
    LET node == graph[reaction_index]
    IN [graph EXCEPT ![reaction_index] =
          [dependents |-> IF node.dependents.has_value
                            THEN Nothing
                            ELSE Optional(compute_dependency_node(reaction_index)),
           number_of_occurrences |-> node.number_of_occurrences + 1]]

\* get_dependency_node computing the list one call later (> for >=)
get_dependency_node_late(graph, reaction_index) ==
    LET node == graph[reaction_index]
        computed ==
            IF ~node.dependents.has_value
               /\ node.number_of_occurrences > dependency_threshold
              THEN Optional(compute_dependency_node(reaction_index))
              ELSE node.dependents
    IN [graph EXCEPT ![reaction_index] =
          [dependents |-> computed,
           number_of_occurrences |-> node.number_of_occurrences + 1]]

\* ReactionNetwork::get_dependency_node: the graph after the call
get_dependency_node(graph, reaction_index) ==
    LET node == graph[reaction_index]
        computed ==
            IF ~node.dependents.has_value
               /\ node.number_of_occurrences >= dependency_threshold
              THEN Optional(compute_dependency_node(reaction_index))
              ELSE node.dependents
    IN [graph EXCEPT ![reaction_index] =
          [dependents |-> computed,
           number_of_occurrences |-> node.number_of_occurrences + 1]]

-----------------------------------------------------------------------------
(* ReactionNetwork::update_propensities: the Updates it passes to           *)
(* update_function, in order, given the list get_dependency_node returned   *)

Update(i, p) == [index |-> i, propensity |-> p]

\* updates_all stopping one reaction before the last
RECURSIVE updates_all_short(_, _)
updates_all_short(st, reaction_index) ==
    IF reaction_index < Cardinality(ReactionIds) - 1
      THEN <<Update(reaction_index, compute_propensity(st, reaction_index))>>
             \o updates_all_short(st, reaction_index + 1)
      ELSE <<>>

RECURSIVE updates_all(_, _)
updates_all(st, reaction_index) ==
    IF reaction_index < Cardinality(ReactionIds)
      THEN <<Update(reaction_index, compute_propensity(st, reaction_index))>>
             \o updates_all(st, reaction_index + 1)
      ELSE <<>>

update_propensities_stale(st, maybe_dependents) ==
    IF maybe_dependents.has_value
      THEN [m \in 1 .. Len(maybe_dependents.value) - 1 |->
              Update(maybe_dependents.value[m],
                     compute_propensity(st, maybe_dependents.value[m]))]
      ELSE updates_all(st, 0)

update_propensities(st, maybe_dependents) ==
    IF maybe_dependents.has_value
      THEN [m \in 1 .. Len(maybe_dependents.value) |->
              Update(maybe_dependents.value[m],
                     compute_propensity(st, maybe_dependents.value[m]))]
      ELSE updates_all(st, 0)

-----------------------------------------------------------------------------
(* The solver, by its contract: update sets one propensity; event yields   *)
(* no event iff the total propensity is zero, else a reaction of positive  *)
(* propensity and a dt > 0                                                  *)

RECURSIVE solver_update(_, _, _)
solver_update(p, updates, m) ==
    IF m <= Len(updates)
      THEN solver_update([p EXCEPT ![updates[m].index] = updates[m].propensity],
                         updates, m + 1)
      ELSE p

RECURSIVE propensity_sum(_, _)
propensity_sum(p, i) ==
    IF i < Cardinality(DOMAIN p) THEN p[i] + propensity_sum(p, i + 1) ELSE 0

NoEvent      == [has_value |-> FALSE, index |-> 0, dt |-> 0]
Event(i, dt) == [has_value |-> TRUE, index |-> i, dt |-> dt]

solver_events(p) ==
    IF propensity_sum(p, 0) = 0
      THEN { NoEvent }
      ELSE { Event(i, dt) : i \in { j \in DOMAIN p : p[j] > 0 }, dt \in DtChoices }

-----------------------------------------------------------------------------
(* Simulation *)

\* a HistoryElement with its two initializers exchanged
HistoryElement_exchanged(id, t) == [reaction_id |-> t, time |-> id]

HistoryElement(id, t) == [reaction_id |-> id, time |-> t]

\* the value execute_step returns after an event (<= for <)
execute_step_continue_le(new_time) == new_time <= time_cutoff

\* the value execute_step returns after an event, from the time before it
execute_step_continue_old_time(new_time) == time < time_cutoff

\* the value execute_step returns after an event: continue?
execute_step_continue(new_time) == new_time < time_cutoff

\* history[step] = ... with step outside the buffer writes past the end of
\* the vector's storage: the write either lands in the memory behind the
\* buffer and the run goes on, or it faults
write_fault(written) ==
    IF written \subseteq DOMAIN history THEN {} ELSE {"crashed"}

\* execute_step without an event, the step counted all the same
execute_step_no_event_counted ==
    /\ ret' = FALSE
    /\ step' = step + 1
    /\ UNCHANGED <<state, time, history, propensities, dependency_graph,
                   gdn_calls, last_updates, last_dependents>>
    /\ history_write' = {}

\* Simulation::execute_step, the solver has no event: return false
execute_step_no_event ==
    /\ ret' = FALSE
    /\ UNCHANGED <<state, time, step, history, propensities, dependency_graph,
                   gdn_calls, last_updates, last_dependents>>
    /\ history_write' = {}

\* Simulation::execute_step
execute_step ==
    \E maybe_event \in solver_events(propensities) :
        /\ last_event' = maybe_event
        /\ IF ~maybe_event.has_value
             THEN execute_step_no_event
             ELSE LET next_reaction == maybe_event.index
                      new_time  == time + maybe_event.dt
                      new_state == update_state(state, next_reaction)
                      new_graph == get_dependency_node(dependency_graph,
                                                       next_reaction)
                      maybe_dependents == new_graph[next_reaction].dependents
                      updates == update_propensities(new_state, maybe_dependents)
                  IN /\ time' = new_time
                     /\ history_write' = {step}
                     /\ history' = IF step \in DOMAIN history
                                      THEN [history EXCEPT ![step] =
                                              HistoryElement(next_reaction, new_time)]
                                      ELSE history
                     /\ step' = step + 1
                     /\ state' = new_state
                     /\ dependency_graph' = new_graph
                     /\ gdn_calls' = [gdn_calls EXCEPT ![next_reaction] = @ + 1]
                     /\ last_dependents' = maybe_dependents
                     /\ last_updates' = updates
                     /\ propensities' = solver_update(propensities, updates, 1)
                     /\ ret' = execute_step_continue(new_time)

\* the caller: execute_steps(step_cutoff) on the constructed Simulation
CallExecuteSteps ==
    /\ pc = "constructed"
    /\ pc' = "execute_steps"
    /\ UNCHANGED <<modelVars, simVars, graphVars, fnVars, npVars, runVars, sharedVars, loadVars>>

\* the loop of execute_steps goes on (break at step_cutoff already)
execute_steps_continue_ge(returned, new_step) ==
    returned /\ ~(new_step >= step_cutoff)

\* the loop of execute_steps goes on: execute_step returned true and the
\* break is not taken
execute_steps_continue(returned, new_step) ==
    returned /\ ~(new_step > step_cutoff)

\* Simulation::execute_steps: one turn of  while (execute_step()) {...}
ExecuteStepsLoop ==
    /\ pc = "execute_steps"
    /\ execute_step
    /\ pc' \in { IF execute_steps_continue(ret', step') THEN "execute_steps"
                                                       ELSE "returned" }
               \cup write_fault(history_write')
    /\ UNCHANGED <<modelVars, time_cutoff, step_cutoff, fnVars, npVars, runVars, sharedVars, loadVars>>

\* one run only: no generator is followed and no earlier run is kept
\* one trajectory only
OneTrajectory ==
    /\ mutex = <<>>
    /\ trajectory = <<>>

\* the network is given, not read from rows
RowsNotRead ==
    /\ maybe_metadata_row = <<>>
    /\ reaction_rows = <<>>

\* no generator is followed and no earlier run is kept
OneSeed ==
    /\ solver_draws = <<>>
    /\ run = 1
    /\ first_run = <<>>

SingleRun ==
    /\ OneSeed
    /\ OneTrajectory
    /\ RowsNotRead

\* no NanoParticle is loaded in Spec and SpecFn
NoNanoParticle ==
    /\ sites = <<>>
    /\ distance_matrix = <<>>
    /\ one_site_interactions = <<>>
    /\ two_site_interactions = <<>>
    /\ num_states = 0
    /\ one_site_interactions_map = <<>>
    /\ two_site_interactions_map = <<>>
    /\ np_initial_state = <<>>
    /\ initial_reactions = <<>>
    /\ site_reaction_dependency = <<>>
    /\ one_site_interaction_factor = 0
    /\ two_site_interaction_factor = 0
    /\ interaction_radius_bound = 0
    /\ np_state = <<>>
    /\ current_reactions = <<>>
    /\ current_site_reaction_dependency = <<>>
    /\ np_propensities = <<>>
    /\ np_last = <<>>
    /\ move_loop = <<>>

\* ReactionNetwork::ReactionNetwork (the initial propensities) on one of
\* networks and one of states, and Simulation::Simulation with one of
\* thresholds, time_cutoffs and cutoffs
Simulation_loaded(networks, states, thresholds, time_cutoffs, cutoffs) ==
    /\ reactions \in networks
    /\ initial_state \in states
    /\ \E f \in SimulationFactors :
          /\ factor_zero = f[1]
          /\ factor_two = f[2]
          /\ factor_duplicate = f[3]
    /\ dependency_threshold \in thresholds
    /\ initial_propensities =
          [i \in DOMAIN reactions |-> compute_propensity(initial_state, i)]
    /\ dependency_graph = [i \in DOMAIN reactions |-> DependentsNode]
    /\ gdn_calls = [i \in DOMAIN reactions |-> 0]
    /\ state = initial_state
    /\ time = 0
    /\ time_cutoff \in time_cutoffs
    /\ step = 0
    /\ step_cutoff \in cutoffs
    /\ history = [i \in 0 .. step_cutoff |-> HistoryElement(0, 0)]
    /\ propensities = initial_propensities
    /\ pc = "constructed"
    /\ ret = FALSE
    /\ last_event = NoEvent
    /\ last_updates = <<>>
    /\ last_dependents = Nothing
    /\ history_write = {}
    /\ fn_state = initial_state
    /\ fn_out = 0
    /\ NoNanoParticle

\* the networks, states, thresholds and time cutoffs of Spec, with a
\* step_cutoff of cutoffs
Simulation_constructed(cutoffs) ==
    Simulation_loaded(ReactionNetworks, [Species -> InitialCounts],
                      0 .. MaxThreshold, {-1, 0, MaxTimeCutoff}, cutoffs)

\* a Simulation constructed with step_cutoff MaxStepCutoff, on which
\* execute_steps(step_cutoff) is called once
Init == Simulation_constructed({MaxStepCutoff}) /\ SingleRun

Next == CallExecuteSteps \/ ExecuteStepsLoop

Spec == Init /\ [][Next]_vars

-----------------------------------------------------------------------------
(* SpecCalls: a Simulation constructed with any step_cutoff the constructor *)
(* accepts (history(step_cutoff + 1) throws for step_cutoff < -1), on which *)
(* the caller invokes execute_step and execute_steps(step_cutoff) any       *)
(* number of times; the model stops invoking once step is past              *)
(* MaxStepCutoff + 1                                                        *)

CallsInit == Simulation_constructed(-1 .. MaxStepCutoff) /\ SingleRun

\* the caller invokes execute_steps(step_cutoff)
CallsExecuteSteps ==
    /\ pc \in {"constructed", "returned"}
    /\ step <= MaxStepCutoff + 1
    /\ pc' = "execute_steps"
    /\ UNCHANGED <<modelVars, simVars, graphVars, fnVars, npVars, runVars, sharedVars, loadVars>>

\* the caller invokes execute_step
CallsExecuteStep ==
    /\ pc \in {"constructed", "returned"}
    /\ step <= MaxStepCutoff + 1
    /\ execute_step
    /\ pc' \in {"returned"} \cup write_fault(history_write')
    /\ UNCHANGED <<modelVars, time_cutoff, step_cutoff, fnVars, npVars, runVars, sharedVars, loadVars>>

CallsNext == CallsExecuteSteps \/ CallsExecuteStep \/ ExecuteStepsLoop

SpecCalls == CallsInit /\ [][CallsNext]_vars

-----------------------------------------------------------------------------
(* SpecRuns: two Simulations on one model with one (seed, step_cutoff,     *)
(* time_cutoff), run one after the other. The solver is deterministic: its *)
(* generator yields solver_draws for the seed and event() is a function of *)
(* the propensities and the next draw. The second Simulation finds the     *)
(* model's dependency graph as the first left it, or as the constructor    *)
(* made it when the model is loaded again.                                  *)

DrawChoices == { [low |-> TRUE, dt |-> 1], [low |-> FALSE, dt |-> 2] }

lowest(S)  == CHOOSE i \in S : \A j \in S : i <= j
highest(S) == CHOOSE i \in S : \A j \in S : j <= i

solver_event(p, draw) ==
    LET positive == { j \in DOMAIN p : p[j] > 0 }
    IN IF propensity_sum(p, 0) = 0
         THEN NoEvent
         ELSE Event(IF draw.low THEN lowest(positive) ELSE highest(positive),
                    draw.dt)

RunsInit ==
    /\ Simulation_constructed({MaxStepCutoff})
    /\ solver_draws \in [0 .. MaxStepCutoff -> DrawChoices]
    /\ run = 1
    /\ first_run = <<>>
    /\ OneTrajectory
    /\ RowsNotRead

RunsCallExecuteSteps == CallExecuteSteps

RunsExecuteStepsLoop ==
    /\ ExecuteStepsLoop
    /\ last_event' = solver_event(propensities, solver_draws[step])

RunsConstructAgain ==
    /\ pc = "returned"
    /\ run = 1
    /\ run' = 2
    /\ first_run' = [history |-> history, state |-> state,
                     time |-> time, step |-> step]
    /\ \/ UNCHANGED graphVars
       \/ /\ dependency_graph' = [i \in DOMAIN reactions |-> DependentsNode]
          /\ gdn_calls' = [i \in DOMAIN reactions |-> 0]
    /\ state' = initial_state
    /\ time' = 0
    /\ step' = 0
    /\ history' = [i \in 0 .. step_cutoff |-> HistoryElement(0, 0)]
    /\ propensities' = initial_propensities
    /\ pc' = "constructed"
    /\ ret' = FALSE
    /\ last_event' = NoEvent
    /\ last_updates' = <<>>
    /\ last_dependents' = Nothing
    /\ history_write' = {}
    /\ UNCHANGED <<modelVars, time_cutoff, step_cutoff, fnVars, npVars,
                   solver_draws, sharedVars, loadVars>>

RunsNext == RunsCallExecuteSteps \/ RunsExecuteStepsLoop \/ RunsConstructAgain

SpecRuns == RunsInit /\ [][RunsNext]_vars

-----------------------------------------------------------------------------
(* SpecDecay: the pure decay network, one species X and the one reaction    *)
(* X -> 0 of a positive rate, from X = n with dependency_threshold 0, a     *)
(* step_cutoff of n or more and a time_cutoff no run reaches. execute_steps *)
(* is called once and execute_step once more after it returned; the loop    *)
(* of execute_steps keeps running until it returns.                         *)

MaxDecayCount == 3

DecayRates == {1, 3}

DecayNetworks == { [i \in {0} |-> Reaction(1, 0, <<0, 0>>, <<0, 0>>, k)] : k \in DecayRates }

\* past the time of MaxDecayCount firings of the longest dt
DecayTimeCutoff == MaxDecayCount * highest(DtChoices) + 1

DecayInit ==
    /\ Simulation_loaded(DecayNetworks, [{0} -> 0 .. MaxDecayCount], {0},
                         {DecayTimeCutoff}, 0 .. MaxDecayCount + 1)
    /\ step_cutoff >= initial_state[0]
    /\ SingleRun

DecayExecuteStepAgain ==
    /\ pc = "returned"
    /\ execute_step
    /\ pc' \in {"stepped_again"} \cup write_fault(history_write')
    /\ UNCHANGED <<modelVars, time_cutoff, step_cutoff, fnVars, npVars, runVars, sharedVars, loadVars>>

DecayNext == CallExecuteSteps \/ ExecuteStepsLoop \/ DecayExecuteStepAgain

SpecDecay == DecayInit /\ [][DecayNext]_vars /\ WF_vars(DecayNext)

-----------------------------------------------------------------------------
(* SpecShared: the trajectories of Trajectories run on one ReactionNetwork. *)
(* Each is a Simulation of its own (state, step); the dependency graph is   *)
(* the model's and is shared. A step of a trajectory is execute_step up to  *)
(* the read of the list update_propensities got from get_dependency_node,   *)
(* cut at the places where another trajectory can run in between: the lock, *)
(* the store of the list, the read and the write of the counter, the        *)
(* return (which releases the lock) and the read of the list.               *)

Trajectories == {1, 2}

MaxSharedSteps == 2   \* a trajectory fires at most MaxSharedSteps events

\* the networks the trajectories share
SharedNetworks ==
    { [i \in 0 .. NumReactions - 1 |-> ReactionPool[1]],
      [i \in 0 .. NumReactions - 1 |-> ReactionPool[IF i = 0 THEN 1 ELSE 3]],
      [i \in 0 .. NumReactions - 1 |-> ReactionPool[IF i = 0 THEN 2 ELSE 4]] }

\* the initial states of the shared networks
SharedInitialStates ==
    { [s \in Species |-> 2], [s \in Species |-> IF s = 0 THEN 2 ELSE 0] }

Trajectory(st) ==
    [pc |-> "idle", state |-> st, step |-> 0, next_reaction |-> 0,
     occurrences_read |-> 0, maybe_dependents |-> Nothing, computed |-> <<>>]

SharedInit ==
    /\ Simulation_loaded(SharedNetworks, SharedInitialStates,
                         0 .. MaxThreshold, {MaxTimeCutoff}, {MaxSharedSteps})
    /\ OneSeed
    /\ RowsNotRead
    /\ mutex = [j \in DOMAIN reactions |-> 0]
    /\ trajectory = [t \in Trajectories |-> Trajectory(initial_state)]

\* std::lock_guard lock (node.mutex) taking the mutex whoever holds it
mutex_free_always(j) == TRUE

\* std::lock_guard lock (node.mutex) can take the mutex of node j
mutex_free(j) == mutex[j] = 0

\* execute_step: the solver's event and update_state
TrajectoryEvent(t) ==
    /\ pc = "constructed"
    /\ trajectory[t].pc = "idle"
    /\ trajectory[t].step < MaxSharedSteps
    /\ \E next_reaction \in ReactionIds :
          /\ compute_propensity(trajectory[t].state, next_reaction) > 0
          /\ trajectory' = [trajectory EXCEPT
                ![t].pc = "lock",
                ![t].next_reaction = next_reaction,
                ![t].state = update_state(trajectory[t].state, next_reaction)]
    /\ UNCHANGED <<modelVars, simVars, graphVars, fnVars, npVars, runVars,
                   loadVars, mutex, pc>>

\* get_dependency_node: the lock_guard and the test of the node
TrajectoryLock(t) ==
    LET j == trajectory[t].next_reaction
        node == dependency_graph[j]
    IN  /\ pc = "constructed"
        /\ trajectory[t].pc = "lock"
        /\ mutex_free(j)
        /\ mutex' = [mutex EXCEPT ![j] = t]
        /\ trajectory' = [trajectory EXCEPT ![t].pc =
              IF ~node.dependents.has_value
                 /\ node.number_of_occurrences >= dependency_threshold
                THEN "store" ELSE "increment"]
        /\ UNCHANGED <<modelVars, simVars, graphVars, fnVars, npVars, runVars,
                       loadVars, pc>>

\* compute_dependency_node: node.dependents = std::optional(...)
TrajectoryStore(t) ==
    LET j == trajectory[t].next_reaction IN
    /\ pc = "constructed"
    /\ trajectory[t].pc = "store"
    /\ dependency_graph' = [dependency_graph EXCEPT ![j].dependents =
                                Optional(compute_dependency_node(j))]
    /\ trajectory' = [trajectory EXCEPT
          ![t].pc = "increment",
          ![t].computed = Append(trajectory[t].computed, j)]
    /\ UNCHANGED <<modelVars, simVars, gdn_calls, fnVars, npVars, runVars,
                   loadVars, mutex, pc>>

\* node.number_of_occurrences++, the read
TrajectoryIncrementRead(t) ==
    LET j == trajectory[t].next_reaction IN
    /\ pc = "constructed"
    /\ trajectory[t].pc = "increment"
    /\ trajectory' = [trajectory EXCEPT
          ![t].pc = "increment_write",
          ![t].occurrences_read = dependency_graph[j].number_of_occurrences]
    /\ UNCHANGED <<modelVars, simVars, graphVars, fnVars, npVars, runVars,
                   loadVars, mutex, pc>>

\* node.number_of_occurrences++, the write; return node.dependents: the
\* lock_guard releases the mutex and the caller holds a reference to the list
TrajectoryReturn(t) ==
    LET j == trajectory[t].next_reaction IN
    /\ pc = "constructed"
    /\ trajectory[t].pc = "increment_write"
    /\ dependency_graph' = [dependency_graph EXCEPT ![j].number_of_occurrences =
                                trajectory[t].occurrences_read + 1]
    /\ gdn_calls' = [gdn_calls EXCEPT ![j] = @ + 1]
    /\ mutex' = [mutex EXCEPT ![j] = 0]
    /\ trajectory' = [trajectory EXCEPT ![t].pc = "read_dependents"]
    /\ UNCHANGED <<modelVars, simVars, fnVars, npVars, runVars, loadVars, pc>>

\* another trajectory is in compute_dependency_node at the store of the list
\* trajectory t reads
store_in_progress(t) ==
    \E u \in Trajectories \ {t} :
        /\ trajectory[u].pc = "store"
        /\ trajectory[u].next_reaction = trajectory[t].next_reaction

\* what if (maybe_dependents) and dependents.size() read through the
\* reference, without the mutex. A read during the store of the list is a
\* data race: it finds the list absent, or stored, or engaged with the
\* vector not yet moved in (size 0)
read_dependents(t) ==
    LET j == trajectory[t].next_reaction
    IN  IF store_in_progress(t)
          THEN {Nothing, Optional(compute_dependency_node(j)), Optional(<<>>)}
          ELSE {dependency_graph[j].dependents}

\* update_propensities: if (maybe_dependents) and the loop over the list,
\* through the reference and without the mutex. A read during the store of
\* the list is a data race: it yields one of read_dependents, or faults.
TrajectoryReadDependents(t) ==
    LET j == trajectory[t].next_reaction IN
    /\ pc = "constructed"
    /\ trajectory[t].pc = "read_dependents"
    /\ \E found \in read_dependents(t) :
          trajectory' = [trajectory EXCEPT
              ![t].pc = "idle",
              ![t].step = @ + 1,
              ![t].maybe_dependents = found]
    /\ pc' \in {"constructed"} \cup (IF store_in_progress(t) THEN {"crashed"} ELSE {})
    /\ UNCHANGED <<modelVars, simVars, graphVars, fnVars, npVars, runVars,
                   loadVars, mutex>>

SharedNext ==
    \E t \in Trajectories :
        \/ TrajectoryEvent(t)
        \/ TrajectoryLock(t)
        \/ TrajectoryStore(t)
        \/ TrajectoryIncrementRead(t)
        \/ TrajectoryReturn(t)
        \/ TrajectoryReadDependents(t)

SpecShared == SharedInit /\ [][SharedNext]_vars

-----------------------------------------------------------------------------
(* SpecSeeded: the trajectories of SpecShared, each a whole Simulation with *)
(* its seed, time, history and solver. execute_steps(step_cutoff) runs on   *)
(* each; the solver is the deterministic one of SpecRuns. The steps of      *)
(* get_dependency_node are those of SpecShared.                             *)

\* what the generators of the seeds yield
Seeds(cutoff) == { [k \in 0 .. cutoff |-> d] : d \in DrawChoices }

SeededTrajectory(seed) ==
    [pc |-> "idle", state |-> initial_state, step |-> 0, next_reaction |-> 0,
     occurrences_read |-> 0, maybe_dependents |-> Nothing, computed |-> <<>>,
     seed |-> seed, time |-> 0, propensities |-> initial_propensities,
     history |-> [i \in 0 .. step_cutoff |-> HistoryElement(0, 0)]]

SeededInit ==
    /\ Simulation_loaded(SharedNetworks, SharedInitialStates,
                         0 .. MaxThreshold, {MaxTimeCutoff},
                         {MaxSharedSteps - 1})
    /\ OneSeed
    /\ RowsNotRead
    /\ mutex = [j \in DOMAIN reactions |-> 0]
    /\ \E seeds \in [Trajectories -> Seeds(step_cutoff)] :
          trajectory = [t \in Trajectories |-> SeededTrajectory(seeds[t])]

\* execute_step: the solver's event, time, history[step], step++ and
\* update_state; without an event execute_step returns false
SeededEvent(t) ==
    LET sim == trajectory[t]
        maybe_event == solver_event(sim.propensities, sim.seed[sim.step])
        next_reaction == maybe_event.index
        new_time == sim.time + maybe_event.dt
    IN  /\ pc = "constructed"
        /\ sim.pc = "idle"
        /\ trajectory' =
              IF ~maybe_event.has_value
                THEN [trajectory EXCEPT ![t].pc = "returned"]
                ELSE [trajectory EXCEPT
                        ![t].pc = "lock",
                        ![t].next_reaction = next_reaction,
                        ![t].time = new_time,
                        ![t].history =
                            IF sim.step \in DOMAIN sim.history
                              THEN [sim.history EXCEPT ![sim.step] =
                                      HistoryElement(next_reaction, new_time)]
                              ELSE sim.history,
                        ![t].step = sim.step + 1,
                        ![t].state = update_state(sim.state, next_reaction)]
        /\ UNCHANGED <<modelVars, simVars, graphVars, fnVars, npVars, runVars,
                       loadVars, mutex, pc>>

\* update_propensities: the read of the list through the reference and the
\* updates of the solver; then the return of execute_step and the test of
\* execute_steps
SeededUpdatePropensities(t) ==
    LET sim == trajectory[t] IN
    /\ pc = "constructed"
    /\ sim.pc = "read_dependents"
    /\ \E found \in read_dependents(t) :
          trajectory' = [trajectory EXCEPT
              ![t].maybe_dependents = found,
              ![t].propensities =
                  solver_update(sim.propensities,
                                update_propensities(sim.state, found), 1),
              ![t].pc =
                  IF execute_steps_continue(execute_step_continue(sim.time),
                                            sim.step)
                    THEN "idle" ELSE "returned"]
    /\ pc' \in {"constructed"} \cup (IF store_in_progress(t) THEN {"crashed"} ELSE {})
    /\ UNCHANGED <<modelVars, simVars, graphVars, fnVars, npVars, runVars,
                   loadVars, mutex>>

SeededNext ==
    \E t \in Trajectories :
        \/ SeededEvent(t)
        \/ TrajectoryLock(t)
        \/ TrajectoryStore(t)
        \/ TrajectoryIncrementRead(t)
        \/ TrajectoryReturn(t)
        \/ SeededUpdatePropensities(t)

SpecSeeded == SeededInit /\ [][SeededNext]_vars

-----------------------------------------------------------------------------
(* SpecLoad: ReactionNetwork::ReactionNetwork reading the metadata row and  *)
(* the reaction rows. The rows come in the order of their reaction_id, each *)
(* id at most once; the factors and the initial state are read as in Spec.  *)

\* the members of a set of integers in increasing order
Increasing(S) ==
    CHOOSE f \in [1 .. Cardinality(S) -> S] :
        \A a, b \in 1 .. Cardinality(S) : a < b => f[a] < f[b]

\* metadata_row.number_of_reactions
MetadataCounts == 0 .. 4

\* reaction_row.reaction_id
RowIds == 0 .. 3

\* std::optional<MetadataSql>
MetadataRows ==
    { [has_value |-> FALSE, number_of_reactions |-> 0] }
      \cup { [has_value |-> TRUE, number_of_reactions |-> n] : n \in MetadataCounts }

\* a reaction row: its reaction_id and the Reaction made of its columns
ReactionSql(reaction_id) ==
    [reaction_id |-> reaction_id,
     reaction |-> ReactionPool[1 + (reaction_id % Len(ReactionPool))]]

\* the tables of reaction rows
ReactionTables ==
    { [k \in 1 .. Cardinality(I) |-> ReactionSql(Increasing(I)[k])] : I \in SUBSET RowIds }

\* reactions.resize(number_of_reactions): value-initialised Reactions
resized_reactions(n) == [i \in 0 .. n - 1 |-> Reaction(0, 0, <<0, 0>>, <<0, 0>>, 0)]

\* the loop over the reaction rows: reactions[reaction_id] = reaction. A
\* reaction_id outside the vector writes past its end: the write lands
\* outside the vector, or faults.
RECURSIVE read_reactions(_, _, _)
read_reactions(rs, rows, k) ==
    IF k > Len(rows)
      THEN rs
      ELSE read_reactions(
               IF rows[k].reaction_id \in DOMAIN rs
                 THEN [rs EXCEPT ![rows[k].reaction_id] = rows[k].reaction]
                 ELSE rs,
               rows, k + 1)

read_reactions_out_of_range(n, rows) ==
    \E k \in 1 .. Len(rows) : rows[k].reaction_id >= n

\* unsigned long int reaction_id after the loop: the id of the last row, 0
\* when there is no row
last_reaction_id(rows) == IF Len(rows) = 0 THEN 0 ELSE rows[Len(rows)].reaction_id

\* the sanity check: the condition of the abort
sanity_check_fails(n, rows, rs) ==
    n # last_reaction_id(rows) + 1 \/ n # Cardinality(DOMAIN rs)

LoadInit ==
    /\ maybe_metadata_row \in MetadataRows
    /\ reaction_rows \in ReactionTables
    /\ reactions = <<>>
    /\ initial_state = [s \in Species |-> 2]
    /\ initial_propensities = <<>>
    /\ \E f \in SimulationFactors :
          /\ factor_zero = f[1]
          /\ factor_two = f[2]
          /\ factor_duplicate = f[3]
    /\ dependency_threshold = 0
    /\ dependency_graph = <<>>
    /\ gdn_calls = <<>>
    /\ state = <<>>
    /\ time = 0
    /\ time_cutoff = 0
    /\ step = 0
    /\ step_cutoff = 0
    /\ history = <<>>
    /\ propensities = <<>>
    /\ ret = FALSE
    /\ last_event = NoEvent
    /\ last_updates = <<>>
    /\ last_dependents = Nothing
    /\ history_write = {}
    /\ fn_state = <<>>
    /\ fn_out = 0
    /\ NoNanoParticle
    /\ OneSeed
    /\ OneTrajectory
    /\ pc = "load"

\* the constructor aborts: no metadata row, or the sanity check fails
LoadAbort ==
    /\ pc = "load"
    /\ \/ ~maybe_metadata_row.has_value
       \/ LET n == maybe_metadata_row.number_of_reactions
              rs == read_reactions(resized_reactions(n), reaction_rows, 1)
          IN  sanity_check_fails(n, reaction_rows, rs)
    /\ pc' = "aborted"
    /\ UNCHANGED <<modelVars, simVars, graphVars, fnVars, npVars, runVars,
                   sharedVars, loadVars>>

\* the constructor faults on a write outside reactions
LoadFault ==
    /\ pc = "load"
    /\ maybe_metadata_row.has_value
    /\ read_reactions_out_of_range(maybe_metadata_row.number_of_reactions,
                                   reaction_rows)
    /\ pc' = "crashed"
    /\ UNCHANGED <<modelVars, simVars, graphVars, fnVars, npVars, runVars,
                   sharedVars, loadVars>>

\* the constructor returns: the model is loaded
LoadReturn ==
    /\ pc = "load"
    /\ maybe_metadata_row.has_value
    /\ LET n == maybe_metadata_row.number_of_reactions
           rs == read_reactions(resized_reactions(n), reaction_rows, 1)
       IN  /\ ~sanity_check_fails(n, reaction_rows, rs)
           /\ reactions' = rs
           /\ dependency_graph' = [i \in 0 .. n - 1 |-> DependentsNode]
           /\ gdn_calls' = [i \in 0 .. n - 1 |-> 0]
           /\ UNCHANGED <<initial_state, factor_zero, factor_two,
                          factor_duplicate, dependency_threshold>>
           /\ initial_propensities' =
                  [i \in 0 .. n - 1 |-> compute_propensity(initial_state, i)']
    /\ pc' = "loaded"
    /\ UNCHANGED <<simVars, fnVars, npVars, runVars, sharedVars, loadVars>>

LoadNext == LoadAbort \/ LoadFault \/ LoadReturn

SpecLoad == LoadInit /\ [][LoadNext]_vars

-----------------------------------------------------------------------------
(* SpecFn: compute_propensity and update_state applied to one reaction and *)
(* one state drawn from bounded sets                                        *)

FnInit ==
    /\ reactions \in [{0} -> AllReactions]
    /\ state \in [Species -> 0 .. MaxFnCount]
    /\ \E f \in FactorChoices :
          /\ factor_zero = f[1]
          /\ factor_two = f[2]
          /\ factor_duplicate = f[3]
    /\ initial_state = state
    /\ initial_propensities = [i \in {0} |-> 0]
    /\ dependency_threshold = 0
    /\ dependency_graph = [i \in {0} |-> DependentsNode]
    /\ gdn_calls = [i \in {0} |-> 0]
    /\ time = 0
    /\ time_cutoff = 0
    /\ step = 0
    /\ step_cutoff = 0
    /\ history = [i \in {0} |-> HistoryElement(0, 0)]
    /\ propensities = initial_propensities
    /\ pc = "fn_input"
    /\ ret = FALSE
    /\ last_event = NoEvent
    /\ last_updates = <<>>
    /\ last_dependents = Nothing
    /\ history_write = {}
    /\ fn_state = state
    /\ fn_out = 0
    /\ NoNanoParticle
    /\ SingleRun

\* double p = model.compute_propensity(state, 0)
FnComputePropensity ==
    /\ pc = "fn_input"
    /\ fn_out' = compute_propensity(state, 0)
    /\ pc' = "fn_propensity"
    /\ UNCHANGED <<modelVars, simVars, graphVars, fn_state, npVars, runVars, sharedVars, loadVars>>

\* model.update_state(state, 0)
FnUpdateState ==
    /\ pc = "fn_input"
    /\ state' = update_state(state, 0)
    /\ pc' = "fn_updated"
    /\ UNCHANGED <<modelVars, time, time_cutoff, step, history, propensities,
                   step_cutoff, ret, last_event, last_updates, last_dependents,
                   history_write,
                   graphVars, fnVars, npVars, runVars, sharedVars, loadVars>>

FnNext == FnComputePropensity \/ FnUpdateState

SpecFn == FnInit /\ [][FnNext]_vars

-----------------------------------------------------------------------------
(* SpecDep: compute_dependency_node applied to the nodes of a network of    *)
(* two reactions whose slots, used or unused, hold every value of           *)
(* DepSlotValues                                                            *)

\* the values a reactant or product column of a reactions row holds
DepSlotValues == {0, 1}

\* every Reaction with 0, 1 or 2 reactants and products over DepSlotValues
DepReactions ==
    { Reaction(nr, np, <<r1, r2>>, <<p1, p2>>, 1) :
        nr \in 0..2, np \in 0..2, r1 \in DepSlotValues, r2 \in DepSlotValues,
        p1 \in DepSlotValues, p2 \in DepSlotValues }

DepNetworks == [{0, 1} -> DepReactions]

DepInit ==
    /\ Simulation_loaded(DepNetworks, {[s \in Species |-> 0]}, {0}, {0}, {0})
    /\ SingleRun

\* compute_dependency_node(j) on a node whose list is absent
DepComputeDependencyNode ==
    /\ pc \in {"constructed", "dependents_stored"}
    /\ \E j \in ReactionIds :
          /\ ~dependency_graph[j].dependents.has_value
          /\ dependency_graph' =
                [dependency_graph EXCEPT
                    ![j].dependents = Optional(compute_dependency_node(j))]
    /\ pc' = "dependents_stored"
    /\ UNCHANGED <<modelVars, simVars, gdn_calls, fnVars, npVars, runVars,
                   sharedVars, loadVars>>

DepNext == DepComputeDependencyNode

SpecDep == DepInit /\ [][DepNext]_vars

-----------------------------------------------------------------------------
(* The nanoparticle engine (NPMC/nano_particle.h)                           *)
(*                                                                          *)
(* site_id[k], left_state[k], right_state[k] and species_id[k] of the       *)
(* source are index k+1 of a tuple here.  Sites lie on the x axis at        *)
(* integer coordinates, so that every distance is an integer.  The distance *)
(* factor is the linear one, kept an integer by expressing it in units of   *)
(* 1 / interaction_radius_bound.                                            *)

NumSites == 3   \* sites are 0..NumSites-1

SiteIds == 0 .. NumSites - 1

\* numbers of rows of an interactions table
TableSizes == {1, 2}

\* the initial states of the sites
InitialSiteStates ==
    { [s \in SiteIds |-> 0], [s \in SiteIds |-> 1],
      [s \in SiteIds |-> IF s = 0 THEN 1 ELSE 0], [s \in SiteIds |-> s % 2] }

\* interaction_radius_bound of the factors row
RadiusChoices == {2, 3}

\* one_site_interaction_factor, two_site_interaction_factor of the factors row
NPFactorChoices == { <<2, 3>> }

\* struct Site
Site(x, y, z, species_id) == [x |-> x, y |-> y, z |-> z, species_id |-> species_id]

\* a row of the interactions table
InteractionSql(n, sp1, sp2, l1, l2, r1, r2, k) ==
    [number_of_sites |-> n, species_id_1 |-> sp1, species_id_2 |-> sp2,
     left_state_1 |-> l1, left_state_2 |-> l2,
     right_state_1 |-> r1, right_state_2 |-> r2, rate |-> k]

\* the rows the interactions tables are filled from
InteractionPool ==
    << InteractionSql(1, 0, -1, 0, -1, 1, -1, 1),   \* species 0: 0 -> 1
       InteractionSql(1, 0, -1, 1, -1, 0, -1, 2),   \* species 0: 1 -> 0
       InteractionSql(1, 1, -1, 1, -1, 0, -1, 1),   \* species 1: 1 -> 0
       InteractionSql(2, 0, 0, 0, 0, 1, 1, 1),      \* (0,0): (0,0) -> (1,1)
       InteractionSql(2, 0, 0, 1, 0, 0, 1, 3),      \* (0,0): (1,0) -> (0,1)
       InteractionSql(2, 0, 1, 1, 0, 0, 1, 2),      \* (0,1): (1,0) -> (0,1)
       InteractionSql(2, 0, 0, 1, 0, 1, 1, 1) >>    \* (0,0): (1,0) -> (1,1)

\* an interactions table: the rows of the pool at the positions I, in order
interaction_rows(I) ==
    LET position == CHOOSE f \in [1 .. Cardinality(I) -> I] :
                        \A a, b \in 1 .. Cardinality(I) : a < b => f[a] < f[b]
    IN  [k \in 1 .. Cardinality(I) |-> InteractionPool[position[k]]]

\* the interactions tables
InteractionTables ==
    { interaction_rows(I) :
        I \in { J \in SUBSET (DOMAIN InteractionPool) :
                   Cardinality(J) \in TableSizes } }

\* the species of the sites
SiteSpeciesChoices ==
    { [s \in SiteIds |-> 0], [s \in SiteIds |-> s % NumSpecies] }

\* struct Interaction, as the constructor fills it from a row
Interaction(interaction_counter, interaction_row) ==
    [interaction_id  |-> interaction_counter,
     number_of_sites |-> interaction_row.number_of_sites,
     species_id      |-> <<interaction_row.species_id_1, interaction_row.species_id_2>>,
     left_state      |-> <<interaction_row.left_state_1, interaction_row.left_state_2>>,
     right_state     |-> <<interaction_row.right_state_1, interaction_row.right_state_2>>,
     rate            |-> interaction_row.rate]

\* struct Reaction of the nanoparticle engine
NPReaction(site_id, interaction, rate) ==
    [site_id |-> site_id, interaction |-> interaction, rate |-> rate]

\* the sites a reaction involves: site_id[k] for k < number_of_sites
reaction_sites(reaction) ==
    { reaction.site_id[k] : k \in 1 .. reaction.interaction.number_of_sites }

\* the constructor's loop over the interaction rows: the rows of n sites
RECURSIVE read_interactions(_, _, _)
read_interactions(rows, interaction_counter, n) ==
    IF interaction_counter >= Len(rows)
      THEN <<>>
      ELSE (IF rows[interaction_counter + 1].number_of_sites = n
              THEN << Interaction(interaction_counter, rows[interaction_counter + 1]) >>
              ELSE <<>>)
           \o read_interactions(rows, interaction_counter + 1, n)

\* the constructor's num_states: the largest left_state_1 of any row, plus one
RECURSIVE count_states(_, _, _)
count_states(rows, interaction_counter, n) ==
    IF interaction_counter >= Len(rows)
      THEN n + 1
      ELSE count_states(rows, interaction_counter + 1,
                        IF n < rows[interaction_counter + 1].left_state_1
                          THEN rows[interaction_counter + 1].left_state_1
                          ELSE n)

\* one_site_interactions_map after the resize and the fill
fill_one_site_map(one, n) ==
    [sp \in Species |-> [st \in 0 .. n - 1 |->
        SelectSeq(one, LAMBDA x : x.species_id[1] = sp /\ x.left_state[1] = st)]]

\* two_site_interactions_map after the resize and the fill
fill_two_site_map(two, n) ==
    [sp0 \in Species |-> [sp1 \in Species |->
        [st0 \in 0 .. n - 1 |-> [st1 \in 0 .. n - 1 |->
            SelectSeq(two, LAMBDA x : /\ x.species_id[1] = sp0
                                      /\ x.species_id[2] = sp1
                                      /\ x.left_state[1] = st0
                                      /\ x.left_state[2] = st1)]]]]

site_distance_squared(s1, s2) ==
    (s1.x - s2.x) * (s1.x - s2.x) + (s1.y - s2.y) * (s1.y - s2.y)
      + (s1.z - s2.z) * (s1.z - s2.z)

\* std::sqrt, on the squares the sites produce
sqrt(sq) == CHOOSE d \in 0 .. sq : d * d = sq

compute_distance_matrix(ss) ==
    [i \in DOMAIN ss |-> [j \in DOMAIN ss |-> sqrt(site_distance_squared(ss[i], ss[j]))]]

\* the "linear" distance factor 1 - distance / interaction_radius_bound,
\* in units of 1 / interaction_radius_bound
distance_factor_function(distance) == interaction_radius_bound - distance

\* &one_site_interactions_map[species][state]; a state outside the axis reads
\* past the end of the vector, and a read that does not fault finds no
\* interaction there
one_site_lookup(species_id, site_state) ==
    IF site_state \in DOMAIN one_site_interactions_map[species_id]
      THEN one_site_interactions_map[species_id][site_state]
      ELSE <<>>

\* &two_site_interactions_map[species][species][state][state], likewise
two_site_lookup(species_id_0, species_id_1, state_0, state_1) ==
    IF /\ state_0 \in DOMAIN two_site_interactions_map[species_id_0][species_id_1]
       /\ state_1 \in DOMAIN two_site_interactions_map[species_id_0][species_id_1][state_0]
      THEN two_site_interactions_map[species_id_0][species_id_1][state_0][state_1]
      ELSE <<>>

\* the one-site reactions of a site in a state
one_site_reactions(site_id_0, site_0_state) ==
    LET available_interactions ==
            one_site_lookup(sites[site_id_0].species_id, site_0_state)
    IN  [i \in 1 .. Len(available_interactions) |->
            NPReaction(<<site_id_0, -1>>, available_interactions[i],
                       available_interactions[i].rate * one_site_interaction_factor)]

\* the two-site reactions in which donor (in donor_state) acts on acceptor
two_site_reactions(donor, acceptor, donor_state, acceptor_state) ==
    LET available_interactions ==
            two_site_lookup(sites[donor].species_id, sites[acceptor].species_id,
                            donor_state, acceptor_state)
        distance == distance_matrix[donor][acceptor]
    IN  [i \in 1 .. Len(available_interactions) |->
            NPReaction(<<donor, acceptor>>, available_interactions[i],
                       distance_factor_function(distance)
                         * available_interactions[i].rate
                         * two_site_interaction_factor)]

\* the constructor pushes the reactions rs onto initial_reactions and inserts
\* each reaction_count into site_reaction_dependency[site_id_0] and
\* site_reaction_dependency[site_id_1] (for a one-site reaction the two are
\* the same site)
push_initial_reactions(acc, rs, site_id_0, site_id_1) ==
    [reactions  |-> acc.reactions \o rs,
     dependency |-> [s \in DOMAIN acc.dependency |->
                        IF s \in {site_id_0, site_id_1}
                          THEN acc.dependency[s] \cup
                                 (Len(acc.reactions) .. Len(acc.reactions) + Len(rs) - 1)
                          ELSE acc.dependency[s]]]

\* the constructor's inner loop over site_id_1, for one site_id_0
RECURSIVE initial_two_site(_, _, _)
initial_two_site(acc, site_id_0, site_id_1) ==
    IF site_id_1 >= NumSites
      THEN acc
      ELSE initial_two_site(
               IF /\ site_id_0 # site_id_1
                  /\ distance_matrix[site_id_0][site_id_1] < interaction_radius_bound
                 THEN push_initial_reactions(
                          push_initial_reactions(
                              acc,
                              two_site_reactions(site_id_0, site_id_1,
                                                 np_initial_state[site_id_0],
                                                 np_initial_state[site_id_1]),
                              site_id_0, site_id_1),
                          two_site_reactions(site_id_1, site_id_0,
                                             np_initial_state[site_id_1],
                                             np_initial_state[site_id_0]),
                          site_id_0, site_id_1)
                 ELSE acc,
               site_id_0, site_id_1 + 1)

\* the constructor's loop over site_id_0: initial_reactions and
\* site_reaction_dependency
RECURSIVE initial_enumeration(_, _)
initial_enumeration(acc, site_id_0) ==
    IF site_id_0 >= NumSites
      THEN acc
      ELSE initial_enumeration(
               initial_two_site(
                   push_initial_reactions(
                       acc,
                       one_site_reactions(site_id_0, np_initial_state[site_id_0]),
                       site_id_0, site_id_0),
                   site_id_0, 0),
               site_id_0 + 1)

\* the constructor reads a map with a state outside its state axes
initial_enumeration_out_of_range ==
    \E s \in SiteIds : np_initial_state[s] >= num_states

\* NanoParticle::update_state, from slot k on: a site whose state is not the
\* left state raises SIGINT, which ends the process
RECURSIVE np_update_state(_, _, _)
np_update_state(st, reaction, k) ==
    IF k >= reaction.interaction.number_of_sites
      THEN [state |-> st, mismatch |-> FALSE]
      ELSE IF st[reaction.site_id[k + 1]] # reaction.interaction.left_state[k + 1]
             THEN [state |-> st, mismatch |-> TRUE]
             ELSE np_update_state(
                      [st EXCEPT ![reaction.site_id[k + 1]] =
                                      reaction.interaction.right_state[k + 1]],
                      reaction, k + 1)

\* site_0_state of update_reactions (the pre-firing state of the site)
new_site_0_state_left(reaction, k) == reaction.interaction.left_state[k + 1]

\* site_0_state of update_reactions: the state the firing left site k in
new_site_0_state(reaction, k) == reaction.interaction.right_state[k + 1]

\* update_reactions, the loop over site_id_1 for the affected site site_id_0
RECURSIVE new_two_site(_, _, _, _, _)
new_two_site(st, site_id_0, site_0_state, other_site_id, site_id_1) ==
    IF site_id_1 >= NumSites
      THEN <<>>
      ELSE (IF /\ site_id_0 # site_id_1
               /\ distance_matrix[site_id_0][site_id_1] < interaction_radius_bound
              THEN two_site_reactions(site_id_0, site_id_1,
                                      site_0_state, st[site_id_1])
                   \o (IF site_id_1 # other_site_id
                         THEN two_site_reactions(site_id_1, site_id_0,
                                                 st[site_id_1], site_0_state)
                         ELSE <<>>)
              ELSE <<>>)
           \o new_two_site(st, site_id_0, site_0_state, other_site_id, site_id_1 + 1)

\* update_reactions, first loop: new_reactions, from affected site k on
RECURSIVE compute_new_reactions(_, _, _)
compute_new_reactions(st, reaction, k) ==
    IF k >= reaction.interaction.number_of_sites
      THEN <<>>
      ELSE LET site_id_0     == reaction.site_id[k + 1]
               other_site_id == IF k = 0 THEN reaction.site_id[2]
                                         ELSE reaction.site_id[1]
               site_0_state  == new_site_0_state(reaction, k)
           IN  one_site_reactions(site_id_0, site_0_state)
               \o new_two_site(st, site_id_0, site_0_state, other_site_id, 0)
               \o compute_new_reactions(st, reaction, k + 1)

\* update_reactions reads a map with a state outside its state axes
update_reactions_out_of_range(st, reaction) ==
    \E k \in 0 .. reaction.interaction.number_of_sites - 1 :
        LET site_id_0 == reaction.site_id[k + 1]
        IN  \/ new_site_0_state(reaction, k) >= num_states
            \/ \E site_id_1 \in SiteIds :
                  /\ site_id_0 # site_id_1
                  /\ distance_matrix[site_id_0][site_id_1] < interaction_radius_bound
                  /\ st[site_id_1] >= num_states

\* update_reactions, second loop: the slots the sets of the affected sites
\* hold go into reactions_to_remove and leave the sets of their sites
RECURSIVE find_reactions_to_remove(_, _, _, _, _)
\* a removal that empties the set of every site
find_reactions_to_remove_clearing(cr, dep, to_remove, reaction, k) ==
    [dependency |-> [s \in DOMAIN dep |-> {}],
     reactions_to_remove |-> UNION { dep[s] : s \in reaction_sites(reaction) }]

find_reactions_to_remove(cr, dep, to_remove, reaction, k) ==
    IF k >= reaction.interaction.number_of_sites
      THEN [dependency |-> dep, reactions_to_remove |-> to_remove]
      ELSE LET reaction_dependency == dep[reaction.site_id[k + 1]]
               erased(s) ==
                   { id \in reaction_dependency :
                        \/ cr[id + 1].site_id[1] = s
                        \/ /\ cr[id + 1].interaction.number_of_sites = 2
                           /\ cr[id + 1].site_id[2] = s }
           IN  find_reactions_to_remove(
                   cr,
                   [s \in DOMAIN dep |-> dep[s] \ erased(s)],
                   to_remove \cup reaction_dependency,
                   reaction, k + 1)

\* *reactions_to_remove.begin()
first_of(S) == CHOOSE x \in S : \A y \in S : x <= y

\* the insert of a slot into the set of the first site only
insert_dependency_first(dep, reaction, slot) ==
    [s \in DOMAIN dep |->
        IF s = reaction.site_id[1] THEN dep[s] \cup {slot} ELSE dep[s]]

\* current_site_reaction_dependency[site_id[k]].insert(slot), k < number_of_sites
insert_dependency(dep, reaction, slot) ==
    [s \in DOMAIN dep |->
        IF s \in reaction_sites(reaction) THEN dep[s] \cup {slot} ELSE dep[s]]

\* update_reactions, third loop, from new reaction i on: the first
\* n_reactions_to_remove new reactions overwrite the removed slots in
\* ascending order, the others are appended
RECURSIVE add_new_reactions(_, _, _, _, _, _, _)
add_new_reactions(cr, dep, to_remove, new_reactions, n_reactions_to_remove, i, written) ==
    IF i >= Len(new_reactions)
      THEN [current_reactions |-> cr, dependency |-> dep,
            reactions_to_remove |-> to_remove, written |-> written]
      ELSE LET new_reaction == new_reactions[i + 1]
           IN  IF i < n_reactions_to_remove
                 THEN LET slot == first_of(to_remove)
                      IN  add_new_reactions(
                              [cr EXCEPT ![slot + 1] = new_reaction],
                              insert_dependency(dep, new_reaction, slot),
                              to_remove \ {slot},
                              new_reactions, n_reactions_to_remove, i + 1,
                              written \cup {slot})
                 ELSE add_new_reactions(
                          Append(cr, new_reaction),
                          insert_dependency(dep, new_reaction, Len(cr)),
                          to_remove,
                          new_reactions, n_reactions_to_remove, i + 1,
                          written \cup {Len(cr)})

\* update_reactions, the while loop: reactions are moved from the tail into
\* the removed slots left over, in ascending order of the slots; itr is the
\* part of reactions_to_remove that reactions_moved_itr has not passed.  A
\* moved reaction that the set of one of its sites does not hold raises
\* SIGINT, which ends the process
RECURSIVE move_reactions(_, _, _, _, _, _, _, _)
\* a compaction that moves nothing: the tail is cut off with the reactions
\* that should have filled the removed slots
move_reactions_none(cr, dep, to_remove, itr, reaction_idx_to_move, reactions_moved, n_reactions_to_move, written) ==
    [current_reactions |-> cr, dependency |-> dep,
     missing |-> FALSE, written |-> written]

move_reactions(cr, dep, to_remove, itr, reaction_idx_to_move, reactions_moved, n_reactions_to_move, written) ==
    IF reactions_moved >= n_reactions_to_move
      THEN [current_reactions |-> cr, dependency |-> dep,
            missing |-> FALSE, written |-> written]
      ELSE IF reaction_idx_to_move \in to_remove
        THEN move_reactions(cr, dep, to_remove, itr, reaction_idx_to_move - 1,
                            reactions_moved, n_reactions_to_move, written)
      ELSE IF reaction_idx_to_move < first_of(itr)
        THEN [current_reactions |-> cr, dependency |-> dep,
              missing |-> FALSE, written |-> written]
      ELSE LET reaction_to_move == cr[reaction_idx_to_move + 1]
               target == first_of(itr)
               moved_cr == [cr EXCEPT ![target + 1] = reaction_to_move]
               remapped ==
                   [s \in DOMAIN dep |->
                       IF /\ s \in reaction_sites(reaction_to_move)
                          /\ reaction_idx_to_move \in dep[s]
                         THEN (dep[s] \ {reaction_idx_to_move}) \cup {target}
                         ELSE dep[s]]
           IN  IF \E s \in reaction_sites(reaction_to_move) :
                     reaction_idx_to_move \notin dep[s]
                 THEN [current_reactions |-> moved_cr, dependency |-> remapped,
                       missing |-> TRUE, written |-> written \cup {target}]
                 ELSE move_reactions(moved_cr, remapped, to_remove,
                                     itr \ {target}, reaction_idx_to_move - 1,
                                     reactions_moved + 1, n_reactions_to_move,
                                     written \cup {target})

\* NanoParticle::update_reactions on the post-firing state st: the new
\* reaction vector and per-site index, whether SIGINT was raised, and the
\* slots it wrote (overwritten, appended, moved into)
update_reactions(st, dep, cr, reaction) ==
    LET new_reactions == compute_new_reactions(st, reaction, 0)
        found == find_reactions_to_remove(cr, dep, {}, reaction, 0)
        added == add_new_reactions(cr, found.dependency,
                                   found.reactions_to_remove, new_reactions,
                                   Cardinality(found.reactions_to_remove), 0, {})
        n_reactions_to_move == Cardinality(added.reactions_to_remove)
        moved == move_reactions(added.current_reactions, added.dependency,
                                added.reactions_to_remove,
                                added.reactions_to_remove,
                                Len(added.current_reactions) - 1, 0,
                                n_reactions_to_move, added.written)
    IN  [current_reactions |->
             SubSeq(moved.current_reactions, 1,
                    Len(moved.current_reactions) - n_reactions_to_move),
         dependency    |-> moved.dependency,
         missing       |-> moved.missing,
         new_reactions |-> new_reactions,
         overwritten   |-> found.reactions_to_remove \ added.reactions_to_remove,
         appended      |-> Len(cr) .. Len(added.current_reactions) - 1,
         moved         |-> moved.written \ added.written]

-----------------------------------------------------------------------------
(* One trajectory over the NanoParticle.  The driver and the solver of the  *)
(* nanoparticle engine are modelled by their contract: a trajectory starts  *)
(* from a copy of the initial snapshot, the solver holds one propensity per *)
(* slot and fires a slot of positive propensity, and after update_state and *)
(* update_reactions it receives an Update for every slot update_reactions   *)
(* wrote                                                                    *)

NoFiring ==
    [fired |-> FALSE, reaction |-> <<>>, overwritten |-> {}, appended |-> {},
     moved |-> {}]

\* the slots an Update is delivered for, moved slots left out
touched_slots_unmoved(ur) == ur.overwritten \cup ur.appended

\* the slots an Update is delivered for
touched_slots(ur) == ur.overwritten \cup ur.appended \cup ur.moved

\* the solver after the Updates of the touched slots, sized to the live slots
deliver_updates(p, ur) ==
    [i \in 1 .. Len(ur.current_reactions) |->
        IF i - 1 \in touched_slots(ur) THEN ur.current_reactions[i].rate
        ELSE IF i <= Len(p) THEN p[i]
        ELSE 0]

\* no ReactionNetwork is simulated in SpecNP
NoReactionNetwork ==
    /\ reactions = <<>>
    /\ initial_state = <<>>
    /\ initial_propensities = <<>>
    /\ factor_zero = 0
    /\ factor_two = 0
    /\ factor_duplicate = 0
    /\ dependency_threshold = 0
    /\ dependency_graph = <<>>
    /\ gdn_calls = <<>>
    /\ state = <<>>
    /\ time = 0
    /\ time_cutoff = 0
    /\ step = 0
    /\ step_cutoff = 0
    /\ history = <<>>
    /\ propensities = <<>>
    /\ ret = FALSE
    /\ last_event = NoEvent
    /\ last_updates = <<>>
    /\ last_dependents = Nothing
    /\ history_write = {}
    /\ fn_state = <<>>
    /\ fn_out = 0
    /\ SingleRun

\* NanoParticle::NanoParticle up to compute_distance_matrix(): the tables
\* are read and the two maps are filled
NPInit ==
    /\ NoReactionNetwork
    /\ \E species_of \in SiteSpeciesChoices :
          sites = [s \in SiteIds |-> Site(s, 0, 0, species_of[s])]
    /\ distance_matrix = compute_distance_matrix(sites)
    /\ \E rows \in InteractionTables :
          /\ one_site_interactions = read_interactions(rows, 0, 1)
          /\ two_site_interactions = read_interactions(rows, 0, 2)
          /\ num_states = count_states(rows, 0, 0)
    /\ \A i \in 1 .. Len(two_site_interactions) :
          two_site_interactions[i].left_state[2] < num_states
    /\ one_site_interactions_map = fill_one_site_map(one_site_interactions, num_states)
    /\ two_site_interactions_map = fill_two_site_map(two_site_interactions, num_states)
    /\ \E f \in NPFactorChoices :
          /\ one_site_interaction_factor = f[1]
          /\ two_site_interaction_factor = f[2]
    /\ interaction_radius_bound \in RadiusChoices
    /\ np_initial_state \in InitialSiteStates
    /\ initial_reactions = <<>>
    /\ site_reaction_dependency = [s \in SiteIds |-> {}]
    /\ np_state = <<>>
    /\ current_reactions = <<>>
    /\ current_site_reaction_dependency = <<>>
    /\ np_propensities = <<>>
    /\ np_last = NoFiring
    /\ move_loop = <<>>
    /\ pc = "np_tables"

\* NanoParticle::NanoParticle, the initial enumeration
NPEnumerate ==
    /\ pc = "np_tables"
    /\ LET enumerated ==
               initial_enumeration([reactions  |-> <<>>,
                                    dependency |-> [s \in SiteIds |-> {}]], 0)
       IN  /\ initial_reactions' = enumerated.reactions
           /\ site_reaction_dependency' = enumerated.dependency
    /\ pc' = "np_loaded"
    /\ UNCHANGED <<modelVars, simVars, graphVars, fnVars, runVars, sharedVars, loadVars, npModelVars, npRunVars>>

\* the initial enumeration faults on a read outside a map
NPEnumerateFault ==
    /\ pc = "np_tables"
    /\ initial_enumeration_out_of_range
    /\ pc' = "np_crashed"
    /\ UNCHANGED <<modelVars, simVars, graphVars, fnVars, npVars, runVars, sharedVars, loadVars>>

\* a trajectory starts from a copy of the initial snapshot
NPStartTrajectory ==
    /\ pc = "np_loaded"
    /\ np_state' = np_initial_state
    /\ current_reactions' = initial_reactions
    /\ current_site_reaction_dependency' = site_reaction_dependency
    /\ np_propensities' = [i \in 1 .. Len(initial_reactions) |-> initial_reactions[i].rate]
    /\ np_last' = NoFiring
    /\ pc' = "np_running"
    /\ UNCHANGED <<modelVars, simVars, graphVars, fnVars, runVars, sharedVars, loadVars, npModelVars, npLoadVars, move_loop>>

\* one step: the solver fires slot i - 1; update_state, then update_reactions
\* on the post-firing state, then the Updates
NPFire ==
    /\ pc = "np_running"
    /\ \E i \in 1 .. Len(current_reactions) :
          /\ np_propensities[i] > 0
          /\ LET reaction == current_reactions[i]
                 updated  == np_update_state(np_state, reaction, 0)
                 ur == update_reactions(updated.state,
                                        current_site_reaction_dependency,
                                        current_reactions, reaction)
             IN  /\ np_state' = updated.state
                 /\ IF updated.mismatch
                      THEN /\ pc' = "np_state_mismatch"
                           /\ UNCHANGED <<current_reactions,
                                          current_site_reaction_dependency,
                                          np_propensities, np_last>>
                      ELSE /\ current_reactions' = ur.current_reactions
                           /\ current_site_reaction_dependency' = ur.dependency
                           /\ np_last' = [fired |-> TRUE, reaction |-> reaction,
                                          overwritten |-> ur.overwritten,
                                          appended |-> ur.appended,
                                          moved |-> ur.moved]
                           /\ IF ur.missing
                                THEN /\ pc' = "np_reaction_missing"
                                     /\ UNCHANGED np_propensities
                                ELSE /\ pc' = "np_running"
                                     /\ np_propensities' =
                                            deliver_updates(np_propensities, ur)
    /\ UNCHANGED <<modelVars, simVars, graphVars, fnVars, runVars, sharedVars, loadVars, npModelVars, npLoadVars, move_loop>>

\* update_reactions faults on a read outside a map
NPFireFault ==
    /\ pc = "np_running"
    /\ \E i \in 1 .. Len(current_reactions) :
          /\ np_propensities[i] > 0
          /\ LET reaction == current_reactions[i]
                 updated  == np_update_state(np_state, reaction, 0)
             IN  /\ ~updated.mismatch
                 /\ update_reactions_out_of_range(updated.state, reaction)
                 /\ np_state' = updated.state
                 /\ np_last' = [fired |-> TRUE, reaction |-> reaction,
                                overwritten |-> {}, appended |-> {},
                                moved |-> {}]
    /\ pc' = "np_crashed"
    /\ UNCHANGED <<modelVars, simVars, graphVars, fnVars, runVars, sharedVars, loadVars, npModelVars, npLoadVars, move_loop,
                   current_reactions, current_site_reaction_dependency,
                   np_propensities>>

NPNext ==
    \/ NPEnumerate
    \/ NPEnumerateFault
    \/ NPStartTrajectory
    \/ NPFire
    \/ NPFireFault

SpecNP == NPInit /\ [][NPNext]_vars

-----------------------------------------------------------------------------
(* SpecNPFn: NanoParticle::update_state applied to one state and one        *)
(* Reaction drawn from bounded sets, the state not necessarily one in which *)
(* the reaction is enabled                                                  *)

\* the ordered pairs of two sites
SitePairs == { p \in SiteIds \X SiteIds : p[1] # p[2] }

\* the Reactions of the interactions of the pool on the sites
FnReactions ==
    { NPReaction(<<p[1], IF InteractionPool[k].number_of_sites = 2 THEN p[2] ELSE -1>>,
                 Interaction(k - 1, InteractionPool[k]), InteractionPool[k].rate) :
        k \in DOMAIN InteractionPool, p \in SitePairs }

NPFnInit ==
    /\ NoReactionNetwork
    /\ sites = <<>>
    /\ distance_matrix = <<>>
    /\ one_site_interactions = <<>>
    /\ two_site_interactions = <<>>
    /\ num_states = 0
    /\ one_site_interactions_map = <<>>
    /\ two_site_interactions_map = <<>>
    /\ initial_reactions = <<>>
    /\ site_reaction_dependency = <<>>
    /\ one_site_interaction_factor = 0
    /\ two_site_interaction_factor = 0
    /\ interaction_radius_bound = 0
    /\ current_reactions = <<>>
    /\ current_site_reaction_dependency = <<>>
    /\ np_propensities = <<>>
    /\ np_initial_state \in [SiteIds -> {0, 1}]
    /\ np_state = np_initial_state
    /\ \E reaction \in FnReactions :
          np_last = [fired |-> FALSE, reaction |-> reaction,
                     overwritten |-> {}, appended |-> {}, moved |-> {}]
    /\ pc = "np_fn_input"
    /\ move_loop = <<>>

\* model.update_state(state, reaction), up to its return or its raise(SIGINT)
NPFnUpdateState ==
    /\ pc = "np_fn_input"
    /\ LET updated == np_update_state(np_state, np_last.reaction, 0)
       IN  /\ np_state' = updated.state
           /\ pc' = IF updated.mismatch THEN "np_state_mismatch"
                                        ELSE "np_fn_updated"
    /\ UNCHANGED <<modelVars, simVars, graphVars, fnVars, runVars, sharedVars,
                   loadVars, npModelVars, npLoadVars, move_loop, current_reactions,
                   current_site_reaction_dependency, np_propensities, np_last>>

NPFnNext == NPFnUpdateState

SpecNPFn == NPFnInit /\ [][NPFnNext]_vars

-----------------------------------------------------------------------------
(* SpecCompact: update_reactions called with any reaction vector, the       *)
(* per-site index that agrees with it, any reaction of the vector as the    *)
(* fired one and a state update_state left. The new reactions, the removal  *)
(* and the overwrite and append loop are one step; the while loop of the    *)
(* compaction takes one step for every iteration, and the resize is a step. *)

\* the interactions table: species 0: 1 -> 0 and (0,0): (1,0) -> (0,1)
CompactTable == interaction_rows({2, 5})

\* the lengths of current_reactions at the call
CompactLengths == 1 .. 4

\* the states of the sites before update_state
CompactStates ==
    { [s \in SiteIds |-> 0], [s \in SiteIds |-> 1], [s \in SiteIds |-> s % 2] }

\* the Reactions of a vector: the one-site interaction on a site, the
\* two-site interaction on a site and the next one
CompactReactions ==
    { NPReaction(<<s, -1>>, one_site_interactions[1],
                 one_site_interactions[1].rate) : s \in SiteIds }
    \cup
    { NPReaction(<<s, s + 1>>, two_site_interactions[1],
                 two_site_interactions[1].rate) : s \in SiteIds \ {NumSites - 1} }

\* the per-site index that agrees with the vector rs
index_of(rs) ==
    [s \in SiteIds |->
        { i \in 0 .. Len(rs) - 1 : s \in reaction_sites(rs[i + 1]) }]

\* the state update_state leaves when reaction fires in st
state_after(st, reaction) ==
    [s \in DOMAIN st |->
        IF s = reaction.site_id[1]
          THEN reaction.interaction.right_state[1]
          ELSE IF reaction.interaction.number_of_sites = 2
                  /\ s = reaction.site_id[2]
                 THEN reaction.interaction.right_state[2]
                 ELSE st[s]]

CompactInit ==
    /\ NoReactionNetwork
    /\ sites = [s \in SiteIds |-> Site(s, 0, 0, 0)]
    /\ distance_matrix = compute_distance_matrix(sites)
    /\ one_site_interactions = read_interactions(CompactTable, 0, 1)
    /\ two_site_interactions = read_interactions(CompactTable, 0, 2)
    /\ num_states = count_states(CompactTable, 0, 0)
    /\ one_site_interactions_map = fill_one_site_map(one_site_interactions, num_states)
    /\ two_site_interactions_map = fill_two_site_map(two_site_interactions, num_states)
    /\ \E f \in NPFactorChoices :
          /\ one_site_interaction_factor = f[1]
          /\ two_site_interaction_factor = f[2]
    /\ interaction_radius_bound \in RadiusChoices
    /\ np_initial_state \in CompactStates
    /\ initial_reactions = <<>>
    /\ site_reaction_dependency = [s \in SiteIds |-> {}]
    /\ np_state = <<>>
    /\ current_reactions = <<>>
    /\ current_site_reaction_dependency = <<>>
    /\ np_last = NoFiring
    /\ np_propensities = <<>>
    /\ move_loop = <<>>
    /\ pc = "np_loaded"

\* the caller: a reaction vector, the per-site index that agrees with it, a
\* reaction of the vector as the fired one and the state update_state left
CompactCall ==
    /\ pc = "np_loaded"
    /\ \E n \in CompactLengths :
          current_reactions' \in [1 .. n -> CompactReactions]
    /\ current_site_reaction_dependency' = index_of(current_reactions')
    /\ \E i \in 1 .. Len(current_reactions') :
          /\ np_last' = [fired |-> FALSE, reaction |-> current_reactions'[i],
                         overwritten |-> {}, appended |-> {}, moved |-> {}]
          /\ np_state' = state_after(np_initial_state, current_reactions'[i])
    /\ pc' = "np_compact_input"
    /\ UNCHANGED <<modelVars, simVars, graphVars, fnVars, runVars, sharedVars,
                   loadVars, npModelVars, npLoadVars, np_propensities,
                   move_loop>>

\* update_reactions up to the compaction: new_reactions, reactions_to_remove,
\* the overwrites and appends, and the locals of the compaction
CompactRemoveAndAdd ==
    /\ pc = "np_compact_input"
    /\ LET reaction == np_last.reaction
           new_reactions == compute_new_reactions(np_state, reaction, 0)
           found == find_reactions_to_remove(current_reactions,
                                             current_site_reaction_dependency,
                                             {}, reaction, 0)
           added == add_new_reactions(current_reactions, found.dependency,
                                      found.reactions_to_remove, new_reactions,
                                      Cardinality(found.reactions_to_remove),
                                      0, {})
       IN  /\ current_reactions' = added.current_reactions
           /\ current_site_reaction_dependency' = added.dependency
           /\ np_last' = [fired |-> TRUE, reaction |-> reaction,
                          overwritten |-> found.reactions_to_remove
                                            \ added.reactions_to_remove,
                          appended |-> Len(current_reactions)
                                         .. Len(added.current_reactions) - 1,
                          moved |-> {}]
           /\ move_loop' =
                 [reactions_to_remove  |-> added.reactions_to_remove,
                  reactions_moved_itr  |-> added.reactions_to_remove,
                  n_reactions_to_move  |-> Cardinality(added.reactions_to_remove),
                  reactions_moved      |-> 0,
                  reaction_idx_to_move |-> Len(added.current_reactions) - 1,
                  break                |-> FALSE,
                  old_size             |-> Len(current_reactions),
                  n_reactions_to_remove |-> Cardinality(found.reactions_to_remove),
                  n_new_reactions      |-> Len(new_reactions)]
           /\ pc' = IF added.reactions_to_remove # {} THEN "np_move_loop"
                                                      ELSE "np_compacted"
    /\ UNCHANGED <<modelVars, simVars, graphVars, fnVars, runVars, sharedVars,
                   loadVars, npModelVars, npLoadVars, np_state, np_propensities>>

\* the for loop over the sites of the moved reaction, from site k on: the
\* erase of the old slot and the insert of the new one, or raise(SIGINT)
RECURSIVE remap_moved(_, _, _, _, _)
remap_moved(dep, reaction_to_move, reaction_idx_to_move, target, k) ==
    IF k >= reaction_to_move.interaction.number_of_sites
      THEN [dependency |-> dep, missing |-> FALSE]
      ELSE LET site_id == reaction_to_move.site_id[k + 1]
           IN  IF reaction_idx_to_move \in dep[site_id]
                 THEN remap_moved(
                        [dep EXCEPT ![site_id] =
                            (@ \ {reaction_idx_to_move}) \cup {target}],
                        reaction_to_move, reaction_idx_to_move, target, k + 1)
                 ELSE [dependency |-> dep, missing |-> TRUE]

\* an iteration that leaves reaction_idx_to_move as it is when the slot is
\* one of reactions_to_remove
move_iteration_stuck(cr, dep, loop) ==
    [current_reactions |-> cr, dependency |-> dep, missing |-> FALSE,
     loop |-> IF loop.reaction_idx_to_move \in loop.reactions_to_remove
                THEN loop
                ELSE [loop EXCEPT !.break = TRUE]]

\* one iteration of  while (reactions_moved < n_reactions_to_move)
move_iteration(cr, dep, loop) ==
    IF loop.reaction_idx_to_move \in loop.reactions_to_remove
      THEN [current_reactions |-> cr, dependency |-> dep, missing |-> FALSE,
            loop |-> [loop EXCEPT !.reaction_idx_to_move = @ - 1]]
      ELSE IF loop.reaction_idx_to_move < first_of(loop.reactions_moved_itr)
        THEN [current_reactions |-> cr, dependency |-> dep, missing |-> FALSE,
              loop |-> [loop EXCEPT !.break = TRUE]]
      ELSE LET reaction_to_move == cr[loop.reaction_idx_to_move + 1]
               target == first_of(loop.reactions_moved_itr)
               remapped == remap_moved(dep, reaction_to_move,
                                       loop.reaction_idx_to_move, target, 0)
           IN  [current_reactions |-> [cr EXCEPT ![target + 1] = reaction_to_move],
                dependency |-> remapped.dependency,
                missing |-> remapped.missing,
                loop |-> IF remapped.missing
                           THEN loop
                           ELSE [loop EXCEPT
                                   !.reaction_idx_to_move = @ - 1,
                                   !.reactions_moved_itr = @ \ {target},
                                   !.reactions_moved = @ + 1]]

\* the while loop is entered once more
CompactMoveIteration ==
    /\ pc = "np_move_loop"
    /\ ~move_loop.break
    /\ move_loop.reactions_moved < move_loop.n_reactions_to_move
    /\ LET moved == move_iteration(current_reactions,
                                   current_site_reaction_dependency, move_loop)
       IN  /\ current_reactions' = moved.current_reactions
           /\ current_site_reaction_dependency' = moved.dependency
           /\ move_loop' = moved.loop
           /\ pc' = IF moved.missing THEN "np_reaction_missing"
                                     ELSE "np_move_loop"
    /\ UNCHANGED <<modelVars, simVars, graphVars, fnVars, runVars, sharedVars,
                   loadVars, npModelVars, npLoadVars, np_state, np_propensities,
                   np_last>>

\* the while loop is left, by its condition or by the break:
\* current_reactions.resize(current_reactions.size() - n_reactions_to_move)
CompactResize ==
    /\ pc = "np_move_loop"
    /\ \/ move_loop.break
       \/ ~(move_loop.reactions_moved < move_loop.n_reactions_to_move)
    /\ current_reactions' =
          SubSeq(current_reactions, 1,
                 Len(current_reactions) - move_loop.n_reactions_to_move)
    /\ pc' = "np_compacted"
    /\ UNCHANGED <<modelVars, simVars, graphVars, fnVars, runVars, sharedVars,
                   loadVars, npModelVars, npLoadVars, np_state,
                   current_site_reaction_dependency, np_propensities, np_last,
                   move_loop>>

CompactNext ==
    \/ CompactCall
    \/ CompactRemoveAndAdd
    \/ CompactMoveIteration
    \/ CompactResize

\* the thread that is in the compaction goes on with it
SpecCompact ==
    /\ CompactInit
    /\ [][CompactNext]_vars
    /\ WF_vars(CompactMoveIteration \/ CompactResize)

-----------------------------------------------------------------------------
(* Claims about the reaction-network engine and the driver *)

Range(f) == { f[x] : x \in DOMAIN f }

\* C1 (Spec): after construction and after every completed execute_step, the
\* solver's propensity of every reaction i is compute_propensity(state, i) on
\* the current state, whether update_propensities re-emitted only Dep(next)
\* or every reaction.
C1_PropensitiesConsistent ==
    \A i \in ReactionIds : propensities[i] = compute_propensity(state, i)

\* a step whose dependency list was present re-emitted fewer Updates than
\* there are reactions, and some propensity has left its initial value
C1_Witness ==
    /\ step >= 2
    /\ last_event.has_value
    /\ last_dependents.has_value
    /\ Len(last_updates) < Cardinality(ReactionIds)
    /\ \E i \in ReactionIds : propensities[i] # initial_propensities[i]

\* the list stored for j, or the list get_dependency_node would store
StoredDep(j) ==
    IF dependency_graph[j].dependents.has_value
      THEN dependency_graph[j].dependents.value
      ELSE compute_dependency_node(j)

\* C5 (Spec): in every reachable state x and for every reaction j, no
\* reaction outside the dependency list of j changes propensity between x
\* and update_state(x, j).
C5_DependentsCoverChanges ==
    \A j \in ReactionIds : \A i \in ReactionIds :
        i \notin Range(StoredDep(j))
          => compute_propensity(state, i)
               = compute_propensity(update_state(state, j), i)

\* a list has been stored that leaves a reaction out, and firing its
\* reaction does change a propensity
C5_Witness ==
    \E j \in ReactionIds :
        /\ dependency_graph[j].dependents.has_value
        /\ \E i \in ReactionIds : i \notin Range(dependency_graph[j].dependents.value)
        /\ \E i \in ReactionIds :
              compute_propensity(state, i)
                # compute_propensity(update_state(state, j), i)

\* C6 (Spec): the initial counts are >= 0 and the solver fires only reactions
\* of strictly positive propensity, so every species count stays >= 0.
C6_CountsNonNegative ==
    \A s \in Species : state[s] >= 0

\* a species has been consumed down to 0
C6_Witness ==
    /\ step >= 2
    /\ \E s \in Species : state[s] = 0 /\ initial_state[s] > 0

\* C7 (Spec): the list of j is present iff get_dependency_node(j) has been
\* called at least dependency_threshold + 1 times, and the call just made
\* returned a present list iff it was at least call number
\* dependency_threshold + 1.
C7_LazyThreshold ==
    /\ \A j \in ReactionIds :
          dependency_graph[j].dependents.has_value
            <=> gdn_calls[j] >= dependency_threshold + 1
    /\ last_event.has_value
         => (last_dependents.has_value
               <=> gdn_calls[last_event.index] >= dependency_threshold + 1)

\* with a threshold of at least 1, call number threshold + 1 has just
\* returned a present list while another reaction's list is still absent
\* after a call
C7_Witness ==
    /\ dependency_threshold >= 1
    /\ last_event.has_value
    /\ gdn_calls[last_event.index] = dependency_threshold + 1
    /\ last_dependents.has_value
    /\ \E j \in ReactionIds :
          gdn_calls[j] >= 1 /\ ~dependency_graph[j].dependents.has_value

\* C8 (SpecFn): compute_propensity(x, r) is factor_zero*k for 0 reactants,
\* x[s]*k for 1 reactant, factor_two*x[s1]*x[s2]*k for 2 distinct reactants
\* and factor_duplicate*factor_two*x[s]*(x[s]-1)*k for 2 equal reactants; it
\* is 0 for 1 reactant with x[s] = 0 and 2 equal reactants with x[s] in {0,1}.
C8_PropensityFormula ==
    pc = "fn_propensity" =>
        LET r  == reactions[0]
            x  == fn_state
            k  == r.rate
            s1 == r.reactants[1]
            s2 == r.reactants[2]
        IN /\ r.number_of_reactants = 0 => fn_out = factor_zero * k
           /\ r.number_of_reactants = 1 =>
                 /\ fn_out = x[s1] * k
                 /\ x[s1] = 0 => fn_out = 0
           /\ r.number_of_reactants = 2 /\ s1 # s2 =>
                 fn_out = factor_two * x[s1] * x[s2] * k
           /\ r.number_of_reactants = 2 /\ s1 = s2 =>
                 /\ fn_out = factor_duplicate * factor_two * x[s1] * (x[s1] - 1) * k
                 /\ x[s1] \in {0, 1} => fn_out = 0

\* A + A -> ... applied to a state with one A: propensity 0 although the
\* factors and the rate are not
C8_Witness ==
    /\ pc = "fn_propensity"
    /\ reactions[0].number_of_reactants = 2
    /\ reactions[0].reactants[1] = reactions[0].reactants[2]
    /\ fn_state[reactions[0].reactants[1]] = 1
    /\ factor_duplicate * factor_two * reactions[0].rate > 1
    /\ fn_out = 0

\* C9 (SpecFn): update_state(x, r) decrements x[s] once per used reactant
\* slot naming s (twice for s + s), increments it once per used product slot
\* naming s, and leaves the other counts alone.
C9_UpdateStateCounts ==
    pc = "fn_updated" =>
        LET r == reactions[0] IN
        \A s \in Species :
            state[s] = fn_state[s]
                - Cardinality({ m \in 1 .. r.number_of_reactants : r.reactants[m] = s })
                + Cardinality({ m \in 1 .. r.number_of_products : r.products[m] = s })

\* firing A + A -> B on [4, 0] gives [2, 1]
C9_Witness ==
    /\ pc = "fn_updated"
    /\ reactions[0].number_of_reactants = 2
    /\ reactions[0].reactants = <<0, 0>>
    /\ reactions[0].number_of_products = 1
    /\ reactions[0].products[1] = 1
    /\ fn_state[0] = 4 /\ fn_state[1] = 0
    /\ state[0] = 2 /\ state[1] = 1

\* C10 (Spec): when the solver yields an event (index, dt), execute_step
\* sets time to time + dt, writes HistoryElement(index, new time) at
\* history[old step], increments step by one, applies update_state(state,
\* index), delivers the Updates of update_propensities on the post-update
\* state to the solver, and returns continue iff the new time is strictly
\* less than time_cutoff.
C10_ExecuteStepEvent ==
    [][ (pc = "execute_steps" /\ propensity_sum(propensities, 0) # 0) =>
          /\ last_event'.has_value
          /\ last_event' \in solver_events(propensities)
          /\ time' = time + last_event'.dt
          /\ history' = [history EXCEPT
                           ![step] = HistoryElement(last_event'.index, time')]
          /\ step' = step + 1
          /\ state' = update_state(state, last_event'.index)
          /\ \A m \in 1 .. Len(last_updates') :
                last_updates'[m].propensity
                  = compute_propensity(state', last_updates'[m].index)
          /\ \A m \in 1 .. Len(last_updates') :
                propensities'[last_updates'[m].index] = last_updates'[m].propensity
          /\ \A i \in ReactionIds :
                (\A m \in 1 .. Len(last_updates') : last_updates'[m].index # i)
                  => propensities'[i] = propensities[i]
          /\ ret' = (time' < time_cutoff) ]_vars

\* an event brought time exactly to time_cutoff: execute_step returned stop
\* after recording it
C10_Witness ==
    /\ pc = "returned"
    /\ last_event.has_value
    /\ time_cutoff > 0
    /\ time = time_cutoff
    /\ step >= 2
    /\ history[step - 1] = HistoryElement(last_event.index, time)
    /\ ret = FALSE

-----------------------------------------------------------------------------
(* Claims about the nanoparticle engine *)

\* the slots of a reaction vector
Slots(rs) == 0 .. Len(rs) - 1

\* the per-site index dep and the reaction vector rs agree in both directions
IndexAgrees(rs, dep) ==
    /\ \A i \in Slots(rs) : \A s \in reaction_sites(rs[i + 1]) : i \in dep[s]
    /\ \A s \in DOMAIN dep : \A i \in dep[s] :
          /\ i \in Slots(rs)
          /\ s \in reaction_sites(rs[i + 1])

\* C2 (SpecNP): after the initial enumeration (initial_reactions against
\* site_reaction_dependency) and after any sequence of firings
\* (current_reactions against current_site_reaction_dependency) the per-site
\* index and the reaction vector agree in both directions: every slot is in
\* the set of every site of its reaction, and every entry of a set is a valid
\* slot whose reaction involves that site.  No slot holds a removed reaction:
\* after a firing every live reaction that involves a site of the fired
\* reaction sits in a slot the firing overwrote or appended, and the move
\* loop never misses a reaction in the index.
C2_IndexAgreesWithReactions ==
    /\ pc \in {"np_loaded", "np_running"} =>
          IndexAgrees(initial_reactions, site_reaction_dependency)
    /\ pc = "np_running" =>
          /\ IndexAgrees(current_reactions, current_site_reaction_dependency)
          /\ np_last.fired =>
                \A i \in Slots(current_reactions) :
                    reaction_sites(current_reactions[i + 1])
                        \cap reaction_sites(np_last.reaction) # {}
                      => i \in np_last.overwritten \cup np_last.appended
    /\ pc # "np_reaction_missing"

\* a firing that overwrote removed slots and moved a reaction from the tail
\* into a removed slot left over
C2_Witness ==
    /\ pc = "np_running"
    /\ np_last.fired
    /\ np_last.overwritten # {}
    /\ np_last.moved # {}
    /\ Len(current_reactions) > 2

\* C3 (SpecNP): at every step boundary every reaction in current_reactions is
\* enabled in the current state: the state of site_id[k] is left_state[k] for
\* each k < number_of_sites; so the state-mismatch branch of update_state is
\* never reached.
C3_ReactionsEnabled ==
    /\ pc = "np_running" =>
          \A i \in Slots(current_reactions) :
              \A k \in 1 .. current_reactions[i + 1].interaction.number_of_sites :
                  np_state[current_reactions[i + 1].site_id[k]]
                      = current_reactions[i + 1].interaction.left_state[k]
    /\ pc # "np_state_mismatch"

\* a two-site reaction has fired and a two-site reaction that involves one of
\* its sites and a third site is live
C3_Witness ==
    /\ pc = "np_running"
    /\ np_last.fired
    /\ np_last.reaction.interaction.number_of_sites = 2
    /\ \E i \in Slots(current_reactions) :
          /\ current_reactions[i + 1].interaction.number_of_sites = 2
          /\ reaction_sites(current_reactions[i + 1])
                \cap reaction_sites(np_last.reaction) # {}
          /\ ~(reaction_sites(current_reactions[i + 1])
                  \subseteq reaction_sites(np_last.reaction))

-----------------------------------------------------------------------------
(* Further claims about the driver *)

\* C12 (Spec): execute_steps(step_cutoff) on a fresh Simulation keeps calling
\* execute_step and returns exactly when execute_step returned stop (no
\* event, or time >= time_cutoff) or step > step_cutoff after the step;
\* otherwise it calls execute_step again.  It fires at most step_cutoff + 1
\* events: step never exceeds step_cutoff + 1.
C12_ExecuteStepsReturns ==
    /\ [](step <= step_cutoff + 1)
    /\ [][pc = "execute_steps" =>
            /\ pc' \in {"execute_steps", "returned"}
            /\ pc' = "returned" <=>
                  \/ ~last_event'.has_value
                  \/ time' >= time_cutoff
                  \/ step' > step_cutoff]_vars

\* execute_steps returned because step passed step_cutoff although the last
\* execute_step returned continue
C12_Witness ==
    /\ pc = "returned"
    /\ ret
    /\ step = step_cutoff + 1
    /\ time < time_cutoff

\* C13 (Spec): when the solver reports no event, execute_step returns stop
\* as a normal outcome (execute_steps returns) and leaves state, time, step,
\* history and the solver's propensities unchanged; update_state and
\* update_propensities are not called (no Update is delivered, no
\* get_dependency_node call is made, nothing is written to history).
C13_NoEventLeavesAllUnchanged ==
    [][(pc = "execute_steps" /\ ~last_event'.has_value) =>
          /\ ret' = FALSE
          /\ pc' = "returned"
          /\ UNCHANGED <<state, time, step, history, propensities>>
          /\ UNCHANGED <<last_updates, last_dependents, gdn_calls,
                         dependency_graph>>
          /\ history_write' = {}]_vars

\* execute_steps returned on a no-event after at least one firing, before the
\* time cutoff and the step cutoff
C13_Witness ==
    /\ pc = "returned"
    /\ ~last_event.has_value
    /\ step > 0
    /\ step <= step_cutoff
    /\ time < time_cutoff

\* C14 (Spec): within a trajectory the times of consecutive recorded history
\* elements do not decrease (every dt of the solver is > 0); step goes up by
\* exactly one per firing and never down; and history[i] is the i-th
\* reaction fired: a firing at step i records the fired reaction and the new
\* time at index i and leaves the earlier elements as they are, and nothing
\* else changes the history.
C14_HistoryInFiringOrder ==
    /\ [](\A i \in 0 .. step - 2 : history[i].time <= history[i + 1].time)
    /\ [][/\ step' \in {step, step + 1}
          /\ (pc = "execute_steps" /\ last_event'.has_value) =>
                /\ step' = step + 1
                /\ history'[step] = [reaction_id |-> last_event'.index,
                                     time |-> time']
                /\ \A i \in 0 .. step - 1 : history'[i] = history[i]
          /\ step' = step => history' = history]_vars

\* three firings are recorded, not all of the same reaction
C14_Witness ==
    /\ pc = "returned"
    /\ step = 3
    /\ history[0].reaction_id # history[1].reaction_id
    /\ history[1].time < history[2].time

\* C15 (Spec): the time cutoff is observed only after a firing has
\* completed.  A fresh Simulation with time_cutoff <= 0 and a nonzero initial
\* propensity fires exactly one event: it never gets past step 1, and when
\* execute_steps has returned, step is 1, history[0] holds the fired reaction
\* with time = dt > 0 and the last execute_step returned stop.  In any run
\* only the last recorded history element can have time >= time_cutoff.
C15_TimeCutoffAfterFiring ==
    /\ (time_cutoff <= 0 /\ propensity_sum(initial_propensities, 0) # 0) =>
          /\ step <= 1
          /\ pc = "returned" =>
                /\ step = 1
                /\ last_event.has_value
                /\ history[0] = [reaction_id |-> last_event.index,
                                 time |-> last_event.dt]
                /\ time = last_event.dt
                /\ time > 0
                /\ ret = FALSE
    /\ \A i \in 0 .. step - 2 : history[i].time < time_cutoff

\* a run with time_cutoff <= 0 that fired its one event, and a run that
\* stopped on a positive time cutoff after several firings
C15_Witness ==
    /\ pc = "returned"
    /\ \/ /\ time_cutoff < 0
          /\ step = 1
          /\ history[0].time > 0
       \/ /\ time_cutoff > 0
          /\ step = 2
          /\ history[0].time < time_cutoff
          /\ history[1].time >= time_cutoff

-----------------------------------------------------------------------------
(* Claims about the driver under repeated calls *)

\* C11 (SpecCalls): every write history[step] of execute_step is at an index
\* inside the buffer of step_cutoff + 1 slots, for every step_cutoff the
\* constructor accepts and however many times execute_step or execute_steps
\* is invoked.
C11_HistoryWriteInBuffer == history_write \subseteq DOMAIN history

-----------------------------------------------------------------------------
(* Claims about two runs with one seed (SpecRuns) *)

\* C16: for one model, seed, step_cutoff and time_cutoff and a deterministic
\* solver, the second run ends with the history, state, time and step the
\* first run ended with
C16_RunsAgree ==
    (run = 2 /\ pc = "returned") =>
        /\ history = first_run.history
        /\ state = first_run.state
        /\ time = first_run.time
        /\ step = first_run.step

\* a second run of two firings or more whose last update went through the
\* dependency graph
C16_Witness ==
    /\ run = 2
    /\ pc = "returned"
    /\ step >= 2
    /\ last_dependents.has_value
    /\ history[0].reaction_id # history[1].reaction_id

-----------------------------------------------------------------------------
(* Claims about pure decay (SpecDecay) *)

\* C17: on the pure decay network from X = n, execute_steps returns, and
\* when it has returned exactly n events have fired, the state is [0],
\* every history element written has reaction_id 0 and a time greater than
\* the one before it, and the total propensity is zero; the execute_step
\* called next returns stop and fires nothing
C17_PureDecayRunsOut ==
    /\ <>(pc = "returned")
    /\ [](pc \in {"returned", "stepped_again"} =>
            /\ step = initial_state[0]
            /\ state = [s \in {0} |-> 0]
            /\ \A i \in 0 .. step - 1 :
                  /\ history[i].reaction_id = 0
                  /\ i > 0 => history[i - 1].time < history[i].time
            /\ propensity_sum(propensities, 0) = 0)
    /\ [](pc = "stepped_again" => ~ret /\ ~last_event.has_value)

\* the run from X = MaxDecayCount has returned and execute_step was called again
C17_Witness ==
    /\ pc = "stepped_again"
    /\ initial_state[0] = MaxDecayCount
    /\ step = MaxDecayCount
    /\ step_cutoff = MaxDecayCount

-----------------------------------------------------------------------------
(* Claims about the initial enumeration and the removal of reactions (SpecNP) *)

\* the slots of rs that hold interaction on the sites site_id
SlotsOf(rs, site_id, interaction) ==
    { i \in Slots(rs) : /\ rs[i + 1].site_id = site_id
                        /\ rs[i + 1].interaction = interaction }

\* the one-site interaction is enabled on site s in the states st
OneSiteEnabled(st, interaction, s) ==
    /\ sites[s].species_id = interaction.species_id[1]
    /\ st[s] = interaction.left_state[1]

\* the two-site interaction is enabled on (donor, acceptor) in the states st
\* and the two are within the interaction radius
TwoSiteEnabled(st, interaction, donor, acceptor) ==
    /\ donor # acceptor
    /\ sites[donor].species_id = interaction.species_id[1]
    /\ sites[acceptor].species_id = interaction.species_id[2]
    /\ st[donor] = interaction.left_state[1]
    /\ st[acceptor] = interaction.left_state[2]
    /\ distance_matrix[donor][acceptor] < interaction_radius_bound

\* C18: the initial enumeration yields exactly one Reaction per two-site
\* interaction and ordered site pair (donor, acceptor) enabled in the initial
\* state within interaction_radius_bound, exactly one per one-site
\* interaction and site enabled, and nothing else (two same-species sites in
\* state 0 in range under (0,0) -> (1,1) give the two entries (0,1) and
\* (1,0)); each entry is indexed under its sites
C18_OneReactionPerEnabledPair ==
    pc = "np_loaded" =>
        /\ \A k \in 1 .. Len(two_site_interactions) : \A d, a \in SiteIds :
              Cardinality(SlotsOf(initial_reactions, <<d, a>>, two_site_interactions[k]))
                = IF TwoSiteEnabled(np_initial_state, two_site_interactions[k], d, a)
                    THEN 1 ELSE 0
        /\ \A k \in 1 .. Len(one_site_interactions) : \A s \in SiteIds :
              Cardinality(SlotsOf(initial_reactions, <<s, -1>>, one_site_interactions[k]))
                = IF OneSiteEnabled(np_initial_state, one_site_interactions[k], s)
                    THEN 1 ELSE 0
        /\ IndexAgrees(initial_reactions, site_reaction_dependency)

\* no interaction is enabled on site s in the states st, alone or with a
\* site within the interaction radius
NothingEnabled(st, s) ==
    /\ \A k \in 1 .. Len(one_site_interactions) :
          ~OneSiteEnabled(st, one_site_interactions[k], s)
    /\ \A k \in 1 .. Len(two_site_interactions) : \A t \in SiteIds :
          /\ ~TwoSiteEnabled(st, two_site_interactions[k], s, t)
          /\ ~TwoSiteEnabled(st, two_site_interactions[k], t, s)

\* C19: when the fired reaction leaves its sites in states for which no
\* interaction is enabled, update_reactions completes, adds nothing (no slot
\* is overwritten or appended), no reaction that is left involves the
\* sites, their per-site index entries are empty, and the survivors fill the
\* slots 0 .. |current_reactions| - 1 that the index of the other sites names
C19_NothingEnabledRemovesAll ==
    ( /\ pc \in {"np_running", "np_reaction_missing", "np_crashed"}
      /\ np_last.fired
      /\ \A s \in reaction_sites(np_last.reaction) : NothingEnabled(np_state, s) )
    => /\ pc = "np_running"
       /\ np_last.overwritten = {}
       /\ np_last.appended = {}
       /\ \A s \in reaction_sites(np_last.reaction) :
             /\ current_site_reaction_dependency[s] = {}
             /\ \A i \in Slots(current_reactions) :
                   s \notin reaction_sites(current_reactions[i + 1])
       /\ IndexAgrees(current_reactions, current_site_reaction_dependency)

-----------------------------------------------------------------------------
(* Claims about the Updates of a step (Spec) *)

\* C20: the Updates update_propensities delivered in the last firing are
\* one per reaction index, in order, when the dependency list of the fired
\* reaction was absent, and one per listed index, in order, when it was
\* present; every Update{i, p} has p = compute_propensity(state, i) on the
\* state passed in, and the solver holds p for i when the call has returned
C20_UpdatesDelivered ==
    (pc \in {"execute_steps", "returned"} /\ step > 0) =>
        /\ IF last_dependents.has_value
             THEN /\ Len(last_updates) = Len(last_dependents.value)
                  /\ \A m \in 1 .. Len(last_updates) :
                        last_updates[m].index = last_dependents.value[m]
             ELSE /\ Len(last_updates) = Cardinality(ReactionIds)
                  /\ \A m \in 1 .. Len(last_updates) :
                        last_updates[m].index = m - 1
        /\ \A m \in 1 .. Len(last_updates) :
              /\ last_updates[m].propensity
                    = compute_propensity(state, last_updates[m].index)
              /\ propensities[last_updates[m].index] = last_updates[m].propensity

\* a firing whose dependency list was present and names some reactions but
\* not all, of a reaction whose list was absent at an earlier firing
C20_Witness ==
    /\ pc \in {"execute_steps", "returned"}
    /\ step > 1
    /\ last_dependents.has_value
    /\ Len(last_updates) > 0
    /\ Len(last_updates) < Cardinality(ReactionIds)
    /\ dependency_threshold > 0
    /\ gdn_calls[last_event.index] > 1

-----------------------------------------------------------------------------
(* Claims about trajectories that share a ReactionNetwork (SpecShared) *)

\* C21: no trajectory reads a node's dependents list (update_propensities,
\* through the reference get_dependency_node returned) while another
\* trajectory is performing the absent-to-present write of the same node
C21_NoReadDuringStore ==
    \A t \in DOMAIN trajectory :
        trajectory[t].pc = "read_dependents" => ~store_in_progress(t)

\* the species in the used reactant slots and the used product slots
used_reactants(i) ==
    { reactions[i].reactants[l] : l \in 1 .. reactions[i].number_of_reactants }

used_products(i) ==
    { reactions[i].products[n] : n \in 1 .. reactions[i].number_of_products }

\* Dep(j): the reactions with a used reactant among the used reactants and
\* products of j
Dep(j) ==
    { i \in ReactionIds :
        used_reactants(i) \cap (used_reactants(j) \cup used_products(j)) # {} }

\* how many times the trajectories ran compute_dependency_node(j)
TimesComputed(j) ==
    LET in(t) == Cardinality({ m \in 1 .. Len(trajectory[t].computed) :
                                  trajectory[t].computed[m] = j })
    IN  in(1) + in(2)

\* C29: under any interleaving of the trajectories, number_of_occurrences of
\* every node j is the number of get_dependency_node(j) calls completed by
\* all trajectories, compute_dependency_node(j) has run at most once, and a
\* stored list is Dep(j)
C29_NodeCountsAllCalls ==
    \A j \in ReactionIds :
        /\ dependency_graph[j].number_of_occurrences = gdn_calls[j]
        /\ TimesComputed(j) <= 1
        /\ dependency_graph[j].dependents.has_value =>
              dependency_graph[j].dependents.value = Increasing(Dep(j))

\* a trajectory is between the read and the write of a counter that counts
\* an earlier call, its list stored, while the other waits for the node
C29_Witness ==
    \E t \in Trajectories : \E u \in Trajectories \ {t} :
        LET j == trajectory[t].next_reaction IN
        /\ trajectory[t].pc = "increment_write"
        /\ trajectory[u].pc = "lock"
        /\ trajectory[u].next_reaction = j
        /\ gdn_calls[j] >= 1
        /\ dependency_graph[j].dependents.has_value
        /\ Len(dependency_graph[j].dependents.value) >= 1

-----------------------------------------------------------------------------
(* Claims about NanoParticle::update_state (SpecNPFn) *)

\* the sites of the reaction are in its left states
LeftStatesHold(st, reaction) ==
    \A k \in 1 .. reaction.interaction.number_of_sites :
        st[reaction.site_id[k]] = reaction.interaction.left_state[k]

\* C22: update_state(state, r) verifies state[r.site_id[k]] = left_state[k]
\* for every k before it mutates any site: on a violation the fatal error is
\* raised with the state unchanged, and without one every site of r is in
\* its right_state and every other site is unchanged
C22_UpdateStateChecksFirst ==
    LET r == np_last.reaction IN
    /\ pc = "np_state_mismatch" =>
          /\ ~LeftStatesHold(np_initial_state, r)
          /\ np_state = np_initial_state
    /\ pc = "np_fn_updated" =>
          /\ LeftStatesHold(np_initial_state, r)
          /\ \A k \in 1 .. r.interaction.number_of_sites :
                np_state[r.site_id[k]] = r.interaction.right_state[k]
          /\ \A s \in SiteIds \ reaction_sites(r) :
                np_state[s] = np_initial_state[s]

-----------------------------------------------------------------------------
(* Claims about loading a reaction network (SpecLoad) *)

\* the reaction rows are exactly the reaction ids 0 .. n - 1
RowsMatch(n, rows) ==
    /\ Len(rows) = n
    /\ \A k \in 1 .. Len(rows) : rows[k].reaction_id = k - 1

\* C23: the load ends in the fatal abort, never in a loaded model, when
\* there is no metadata row or the reaction rows do not match
\* metadata.number_of_reactions (no rows at all and gaps in reaction_id
\* included); a model is loaded only when the rows are exactly the
\* reaction ids 0 .. N - 1
C23_LoadAbortsOnMismatch ==
    /\ ( /\ pc # "load"
         /\ \/ ~maybe_metadata_row.has_value
            \/ ~RowsMatch(maybe_metadata_row.number_of_reactions, reaction_rows) )
       => pc = "aborted"
    /\ pc = "loaded" =>
          /\ maybe_metadata_row.has_value
          /\ RowsMatch(maybe_metadata_row.number_of_reactions, reaction_rows)

-----------------------------------------------------------------------------
(* Claims about the reactions update_reactions leaves (SpecNP) *)

\* C24: after update_reactions for a fired reaction, every two-site
\* interaction enabled on an affected site and another site within range
\* is in current_reactions exactly once in each orientation (the pair of
\* the two affected sites included), none that is not enabled is there, and
\* no two slots of current_reactions hold the same site_id pair and
\* interaction_id
C24_OncePerOrientation ==
    (pc = "np_running" /\ np_last.fired) =>
        /\ \A s \in reaction_sites(np_last.reaction) : \A t \in SiteIds :
              \A k \in 1 .. Len(two_site_interactions) :
                  /\ Cardinality(SlotsOf(current_reactions, <<s, t>>, two_site_interactions[k]))
                        = IF TwoSiteEnabled(np_state, two_site_interactions[k], s, t)
                            THEN 1 ELSE 0
                  /\ Cardinality(SlotsOf(current_reactions, <<t, s>>, two_site_interactions[k]))
                        = IF TwoSiteEnabled(np_state, two_site_interactions[k], t, s)
                            THEN 1 ELSE 0
        /\ \A i, j \in Slots(current_reactions) :
              ( /\ i # j
                /\ current_reactions[i + 1].site_id = current_reactions[j + 1].site_id )
              => current_reactions[i + 1].interaction.interaction_id
                   # current_reactions[j + 1].interaction.interaction_id

\* the rate the enumeration rules give a reaction
RuleRate(reaction) ==
    IF reaction.interaction.number_of_sites = 1
      THEN reaction.interaction.rate * one_site_interaction_factor
      ELSE distance_factor_function(
               distance_matrix[reaction.site_id[1]][reaction.site_id[2]])
             * reaction.interaction.rate * two_site_interaction_factor

\* rs holds, once each and at the rate of the rules, the reactions the
\* enumeration rules give in the states st, and nothing else
EnumeratedFrom(rs, st) ==
    /\ \A k \in 1 .. Len(two_site_interactions) : \A d, a \in SiteIds :
          Cardinality(SlotsOf(rs, <<d, a>>, two_site_interactions[k]))
            = IF TwoSiteEnabled(st, two_site_interactions[k], d, a) THEN 1 ELSE 0
    /\ \A k \in 1 .. Len(one_site_interactions) : \A s \in SiteIds :
          Cardinality(SlotsOf(rs, <<s, -1>>, one_site_interactions[k]))
            = IF OneSiteEnabled(st, one_site_interactions[k], s) THEN 1 ELSE 0
    /\ \A i \in Slots(rs) : rs[i + 1].rate = RuleRate(rs[i + 1])

\* C25: after any sequence of firings from the initial enumeration, the
\* multiset of reactions (site pair, interaction, rate) in current_reactions
\* is the multiset the enumeration rules give for the current state
C25_IncrementalEqualsRebuild ==
    (pc = "np_running" /\ np_last.fired) =>
        EnumeratedFrom(current_reactions, np_state)

\* C26: every lookup into one_site_interactions_map and
\* two_site_interactions_map, in the initial enumeration and in
\* update_reactions, is inside the maps, for every state a site can be in
\* (every initial state and every right_state)
C26_LookupsInsideMaps ==
    /\ pc = "np_tables" => ~initial_enumeration_out_of_range
    /\ pc = "np_running" =>
          \A i \in 1 .. Len(current_reactions) :
              LET updated == np_update_state(np_state, current_reactions[i], 0)
              IN  (np_propensities[i] > 0 /\ ~updated.mismatch)
                    => ~update_reactions_out_of_range(updated.state,
                                                      current_reactions[i])
    /\ pc # "np_crashed"

\* the number of slots of cr that hold the reaction r
SlotsHolding(cr, r) == Cardinality({ i \in 1 .. Len(cr) : cr[i] = r })

\* no site of the reaction r is a site of the fired reaction
Unaffected(r, fired) == reaction_sites(r) \cap reaction_sites(fired) = {}

\* the step is a call of update_state and update_reactions that returned or
\* raised in the compaction
UpdateReactionsStep ==
    /\ pc = "np_running"
    /\ pc' \in {"np_running", "np_reaction_missing"}

\* C27: update_reactions changes only reactions that involve a site of the
\* fired reaction: every reaction of current_reactions all of whose sites are
\* unaffected is in current_reactions after the call, with the same site ids,
\* interaction and rate and in as many slots; the state vector is the one
\* update_state left, and the sites, the distance matrix and the interaction
\* tensors are not modified
C27_OnlyAffectedChange ==
    [][UpdateReactionsStep =>
          /\ \A i \in 1 .. Len(current_reactions) :
                Unaffected(current_reactions[i], np_last'.reaction) =>
                    SlotsHolding(current_reactions', current_reactions[i])
                        = SlotsHolding(current_reactions, current_reactions[i])
          /\ np_state' = np_update_state(np_state, np_last'.reaction, 0).state
          /\ \A s \in DOMAIN np_state :
                s \notin reaction_sites(np_last'.reaction) =>
                    np_state'[s] = np_state[s]
          /\ UNCHANGED npModelVars]_vars

\* a call has moved an unaffected reaction into a removed slot
C27_Witness ==
    /\ pc = "np_running"
    /\ np_last.fired
    /\ \E slot \in np_last.moved :
          /\ slot < Len(current_reactions)
          /\ Unaffected(current_reactions[slot + 1], np_last.reaction)

\* C28: the list of a dependency node changes at most once: it starts
\* absent, and once present it stays present with the same contents through
\* every later get_dependency_node and update_propensities; the counter of
\* a node never decreases
C28_ListWrittenOnce ==
    /\ \A j \in DOMAIN dependency_graph :
          ~dependency_graph[j].dependents.has_value
    /\ [][\A j \in DOMAIN dependency_graph :
            /\ dependency_graph[j].dependents.has_value =>
                  dependency_graph'[j].dependents
                      = dependency_graph[j].dependents
            /\ dependency_graph'[j].number_of_occurrences
                  >= dependency_graph[j].number_of_occurrences]_vars

\* get_dependency_node was called on a node whose list was present
C28_Witness ==
    /\ pc \in {"execute_steps", "returned"}
    /\ last_event.has_value
    /\ dependency_graph[last_event.index].dependents.has_value
    /\ dependency_graph[last_event.index].number_of_occurrences
          >= dependency_threshold + 2

\* C30: compute_dependency_node(j) stores exactly Dep(j), the reactions one
\* of whose first number_of_reactants reactants is a used reactant or
\* product of j, each index once and in increasing order; a reaction with
\* zero reactants is in no list, and the unused slots have no influence
C30_StoresDep ==
    \A j \in ReactionIds :
        dependency_graph[j].dependents.has_value =>
            /\ dependency_graph[j].dependents.value = Increasing(Dep(j))
            /\ \A m \in DOMAIN dependency_graph[j].dependents.value :
                  reactions[dependency_graph[j].dependents.value[m]]
                      .number_of_reactants > 0

\* a list of one entry is stored for a reaction j with one reactant whose
\* unused reactant slot holds the value of a slot of a reaction without
\* reactants
C30_Witness ==
    /\ pc = "dependents_stored"
    /\ \E j, i \in ReactionIds :
          /\ dependency_graph[j].dependents.has_value
          /\ reactions[i].number_of_reactants = 0
          /\ reactions[j].number_of_reactants = 1
          /\ reactions[j].reactants[2] = reactions[i].reactants[1]
          /\ reactions[j].reactants[2] # reactions[j].reactants[1]
          /\ Len(dependency_graph[j].dependents.value) = 1

-----------------------------------------------------------------------------
(* Claims about seeded trajectories that share a ReactionNetwork            *)
(* (SpecSeeded)                                                             *)

\* the Simulation sim after steps more calls of execute_step with no other
\* trajectory on the model, whose dependency graph is graph
RECURSIVE run_alone(_, _, _)
run_alone(sim, graph, steps) ==
    LET maybe_event == solver_event(sim.propensities, sim.seed[sim.step])
        next_reaction == maybe_event.index
        new_time == sim.time + maybe_event.dt
        new_state == update_state(sim.state, next_reaction)
        new_graph == get_dependency_node(graph, next_reaction)
        updates == update_propensities(new_state,
                                       new_graph[next_reaction].dependents)
    IN  IF steps = 0 \/ ~maybe_event.has_value
          THEN sim
          ELSE run_alone(
                 [sim EXCEPT
                    !.time = new_time,
                    !.history = [sim.history EXCEPT ![sim.step] =
                                   HistoryElement(next_reaction, new_time)],
                    !.step = sim.step + 1,
                    !.state = new_state,
                    !.propensities = solver_update(sim.propensities, updates, 1)],
                 new_graph, steps - 1)

\* what a trajectory delivers
Results(sim) ==
    [history |-> sim.history, state |-> sim.state, time |-> sim.time,
     step |-> sim.step]

\* the trajectory t, between two steps, has the results of a trajectory of
\* its seed that ran as many steps alone
AsAlone(t) ==
    trajectory[t].pc \in {"idle", "returned"} =>
        Results(trajectory[t])
          = Results(run_alone(SeededTrajectory(trajectory[t].seed),
                              [i \in DOMAIN reactions |-> DependentsNode],
                              trajectory[t].step))

\* C31: trajectories that share a ReactionNetwork do not influence each
\* other's results: the history, state, time and step of a trajectory are
\* those of a trajectory of its seed run alone, whatever the others do and
\* however the steps interleave, and every trajectory gets to deliver them;
\* no step changes the reactions, initial_state, initial_propensities or
\* factors of the model
C31_TrajectoriesIndependent ==
    /\ [](pc # "crashed" /\ \A t \in DOMAIN trajectory : AsAlone(t))
    /\ [][UNCHANGED <<reactions, initial_state, initial_propensities,
                      factor_zero, factor_two, factor_duplicate>>]_vars

-----------------------------------------------------------------------------
(* Claims about the compaction of update_reactions (SpecCompact) *)

\* the next iteration of the while loop moves a reaction
MovesReaction ==
    /\ pc = "np_move_loop"
    /\ ~move_loop.break
    /\ move_loop.reactions_moved < move_loop.n_reactions_to_move
    /\ move_loop.reaction_idx_to_move \notin move_loop.reactions_to_remove
    /\ ~(move_loop.reaction_idx_to_move < first_of(move_loop.reactions_moved_itr))

\* C32: from any reaction vector and per-site index that agree, the
\* compaction of update_reactions never reaches its fatal branches: every
\* reaction it moves from a slot h has h in the set of each of its sites
\* (a std::set holds it once), so "could not find reaction" and "multiple
\* occurrences" are not reached
C32_MovedReactionInIndex ==
    /\ pc # "np_reaction_missing"
    /\ MovesReaction =>
          \A s \in reaction_sites(
                      current_reactions[move_loop.reaction_idx_to_move + 1]) :
              move_loop.reaction_idx_to_move
                  \in current_site_reaction_dependency[s]

\* the compaction has moved two reactions, one of them of two sites
C32_Witness ==
    /\ pc = "np_compacted"
    /\ move_loop.reactions_moved >= 2
    /\ \E i \in 1 .. Len(current_reactions) :
          /\ current_reactions[i].interaction.number_of_sites = 2
          /\ i - 1 \in move_loop.reactions_to_remove

\* the iteration about to run reads *reactions_moved_itr
ReadsDestination ==
    /\ pc = "np_move_loop"
    /\ ~move_loop.break
    /\ move_loop.reactions_moved < move_loop.n_reactions_to_move
    /\ move_loop.reaction_idx_to_move \notin move_loop.reactions_to_remove

\* C33: the compaction loop of update_reactions always terminates, for every
\* set of slots left to remove and every vector length: the source slot
\* reaction_idx_to_move decreases on every iteration that does not break, the
\* destination *reactions_moved_itr is read only while fewer than
\* n_reactions_to_move moves were made and is then not at the end, and the
\* resize shortens the vector by n_reactions_to_move, to the old length
\* minus the removed plus the new reactions
C33_CompactionTerminates ==
    /\ (pc = "np_move_loop") ~> (pc = "np_compacted")
    /\ [][(pc = "np_move_loop" /\ pc' = "np_move_loop" /\ ~move_loop'.break) =>
            move_loop'.reaction_idx_to_move < move_loop.reaction_idx_to_move]_vars
    /\ [](ReadsDestination =>
            /\ move_loop.reactions_moved < move_loop.n_reactions_to_move
            /\ move_loop.reactions_moved_itr # {}
            /\ Cardinality(move_loop.reactions_moved_itr)
                  = move_loop.n_reactions_to_move - move_loop.reactions_moved)
    /\ [][(pc = "np_move_loop" /\ pc' = "np_compacted") =>
            Len(current_reactions')
              = Len(current_reactions) - move_loop.n_reactions_to_move]_vars
    /\ [](pc = "np_compacted" =>
            Len(current_reactions)
              = move_loop.old_size - move_loop.n_reactions_to_remove
                  + move_loop.n_new_reactions)

\* the loop was left by its break with every slot above the destination one
\* to remove, and the vector is empty after the resize
C33_Witness ==
    /\ pc = "np_compacted"
    /\ move_loop.break
    /\ move_loop.reaction_idx_to_move < 0
    /\ move_loop.n_reactions_to_move > 1
    /\ Len(current_reactions) = 0

====
